---- MODULE Spec2Model ----
(***************************************************************************)
(* Wing Mate (IL-2 campaign analyzer): the data-access pipeline.           *)
(*                                                                         *)
(*   SpecLoader    IL2DataParser.get_json_data / _load_json_file with the  *)
(*                 class-level lru_cache, and JsonBatchRepository          *)
(*   SpecResolver  IL2DataParser.get_mission_data and its helpers          *)
(*   SpecProcessor IL2DataProcessor.process_campaign and its helpers       *)
(*                                                                         *)
(* A call's outcome is either a returned value or a raised exception:      *)
(* Python's try/except is modelled by matching the raised class against    *)
(* the classes an except clause names.                                     *)
(***************************************************************************)
EXTENDS Integers, Sequences, FiniteSets, TLC

VARIABLES
    disk,       \* loader: what the file a.json holds;
                \* resolver: the listing of the MissionData directory
    cache,      \* loader: the lru_cache of _get_json_data_cached, LRU first
    call,       \* the last step taken: the operation, its inputs, its outcome
    heap        \* the objects of the application: the fields of the
                \* AppContainer, the worker thread and the window that starts it

(***************************************************************************)
(* Outcomes and the exception hierarchy                                    *)
(***************************************************************************)
Ret(v) == [kind |-> "return", val |-> v]
Raise(e) == [kind |-> "raise", exc |-> e]

\* The classes an exception is an instance of (Python's builtin hierarchy).
Bases(e) ==
    CASE e = "UnicodeDecodeError" -> {"UnicodeDecodeError", "ValueError"}
      [] e = "JSONDecodeError"    -> {"JSONDecodeError", "ValueError"}
      [] e = "PermissionError"    -> {"PermissionError", "OSError"}
      [] e = "FileNotFoundError"  -> {"FileNotFoundError", "OSError"}
      [] OTHER                    -> {e}

Caught(out, classes) == out.kind = "raise" /\ Bases(out.exc) \cap classes # {}

None == [t |-> "None"]

(***************************************************************************)
(* JSON values as Python holds them: None, str, int, bool, float, list,    *)
(* dict (a dict keeps its items in insertion order).  The floats are the   *)
(* whole numbers n.0 and the halves n.5, n >= 0.                           *)
(***************************************************************************)
JStr(s) == [t |-> "str", s |-> s]
JInt(n) == [t |-> "int", n |-> n]
JBool(b) == [t |-> "bool", b |-> b]
JFloat(n, half) == [t |-> "float", n |-> n, half |-> half]
JList(items) == [t |-> "list", items |-> items]
JDict(pairs) == [t |-> "dict", pairs |-> pairs]
KV(k, v) == [k |-> k, v |-> v]

\* key in d
HasKey(d, key) == \E k \in 1..Len(d.pairs) : d.pairs[k].k = key

\* d.get(key, default) of a dict d
DictGet(d, key, default) ==
    IF HasKey(d, key)
    THEN d.pairs[CHOOSE k \in 1..Len(d.pairs) : d.pairs[k].k = key].v
    ELSE default


\* list(d.values())
Values(d) == [k \in 1..Len(d.pairs) |-> d.pairs[k].v]

\* bool(x)
Truthy(x) ==
    CASE x.t = "None" -> FALSE
      [] x.t = "str"  -> x.s # ""
      [] x.t = "int"  -> x.n # 0
      [] x.t = "bool" -> x.b
      [] x.t = "float" -> x.n # 0 \/ x.half
      [] x.t = "list" -> x.items # <<>>
      [] x.t = "dict" -> x.pairs # <<>>
      [] OTHER        -> TRUE

\* x or y
Or(x, y) == IF Truthy(x) THEN x ELSE y

\* str(x)
PyStr(x) ==
    CASE x.t = "str"  -> x.s
      [] x.t = "int"  -> ToString(x.n)
      [] x.t = "None" -> "None"
      [] x.t = "bool" -> IF x.b THEN "True" ELSE "False"
      [] x.t = "float" -> ToString(x.n) \o (IF x.half THEN ".5" ELSE ".0")
      [] x.t = "list" -> IF x.items = <<>> THEN "[]" ELSE "[...]"
      [] OTHER        -> IF x.pairs = <<>> THEN "{}" ELSE "{...}"

(***************************************************************************)
(* The loader: files, decoding, _load_json_file                            *)
(***************************************************************************)
\* Two parser instances: the one AppContainer.get_parser() hands out and the
\* one inside the IL2DataProcessor that create_processor() builds for a sync.
Parsers == {"container", "sync"}

\* The documents a file may hold: JSON objects, and a JSON array.
Docs == {"d1", "d2"}
ArrayDoc == "[]"

\* lru_cache(maxsize=128).  The model runs the cache with a small capacity:
\* the wrapper treats every capacity alike, and the checks are repeated
\* with the capacity raised.
maxsize == 3

\* A file: whether it exists, whether open() succeeds, the encoding its
\* non-ASCII bytes were written in, whether its text is JSON, and which
\* document it holds.
File(e, r, cs, j, d) ==
    [exists |-> e, readable |-> r, charset |-> cs, json |-> j, doc |-> d]
MissingFile == File(FALSE, FALSE, "utf-8", FALSE, "")
Utf8File(d) == File(TRUE, TRUE, "utf-8", TRUE, d)
Latin1File(d) == File(TRUE, TRUE, "latin-1", TRUE, d)
MalformedFile == File(TRUE, TRUE, "utf-8", FALSE, "")

\* The JSON value of document d whose characters came out of the decoder as
\* written ("exact"), as Latin-1 readings of UTF-8 bytes ("mojibake"), or
\* with U+FFFD for the undecodable bytes ("replaced").
JsonValue(d, chars) == [t |-> "json", doc |-> d, chars |-> chars]

\* The documents of a campaign.
PlayerSerial == 7
PlayerSquadron == 101

Pilot(name, victories, missionFlown, status) ==
    JDict(<<KV("name", JStr(name)), KV("rank", JStr("Leutnant")),
            KV("country", JStr("Germany")), KV("victories", victories),
            KV("missionFlown", missionFlown), KV("pilotActiveStatus", status)>>)

Victories(n) == JList([k \in 1..n |-> JDict(<<KV("victim", JInt(k))>>)])

Report(date) ==
    JDict(<<KV("date", date), KV("reportPilotName", JStr("Lt. Hans Schmidt")),
            KV("type", JStr("Albatros D.V")), KV("squadron", JStr("Jasta 11"))>>)

\* A member of a personnel file as the personnel resolution reads it.
SquadronMember(name, country, medals) ==
    JDict(<<KV("name", JStr(name)), KV("country", JStr(country)),
            KV("medals", JList(medals))>>)

\* json.load of the document a file holds
Json(doc) ==
    CASE doc = ArrayDoc -> JList(<<>>)
      [] doc = "{}" -> JDict(<<>>)
      [] doc = "campaign" ->
            JDict(<<KV("referencePlayerSerialNumber", JInt(PlayerSerial)),
                    KV("referencePlayerName", JStr("Hans Schmidt"))>>)
      [] doc = "campaign array" -> JList(<<JStr("Campaign")>>)
      [] doc = "report 19180101" -> Report(JStr("19180101"))
      [] doc = "report 19171231" -> Report(JStr("19171231"))
      [] doc = "report 19171230" -> Report(JStr("19171230"))
      [] doc = "mission 1918-01-01" ->
            JDict(<<KV("missionDescription", JStr("Patrol. Weather Report: clear")),
                    KV("missionPlanes",
                       JDict(<<KV(ToString(PlayerSerial),
                                  JDict(<<KV("squadronId", JInt(PlayerSquadron))>>))>>))>>)
      [] doc = "mission 1917-12-30" ->
            JDict(<<KV("missionDescription", JStr("Escort")),
                    KV("missionPlanes",
                       JDict(<<KV("12", JDict(<<KV("squadronId", JInt(PlayerSquadron))>>)),
                               KV(ToString(PlayerSerial),
                                  JDict(<<KV("squadronId", JInt(102))>>))>>))>>)
      [] doc = "personnel" ->
            JDict(<<KV("squadronMemberCollection",
                       JDict(<<KV("1", Pilot("A", Victories(2), JInt(3), JInt(1))),
                               KV("2", Pilot("B", JStr("many"), JStr("x"), JInt(2)))>>))>>)
      [] doc = "personnel array" -> JList(<<Pilot("A", Victories(2), JInt(3), JInt(1))>>)
      [] doc = "personnel collection array" ->
            JDict(<<KV("squadronMemberCollection",
                       JList(<<Pilot("A", Victories(2), JInt(3), JInt(1))>>))>>)
      [] doc = "personnel member string" ->
            JDict(<<KV("squadronMemberCollection",
                       JDict(<<KV("1", Pilot("A", Victories(2), JInt(3), JInt(1))),
                               KV("2", JStr("B"))>>))>>)
      [] doc = "aces array" ->
            JList(<<Pilot("Ace A", Victories(1), JInt(9), JInt(1)),
                    Pilot("Ace B", JStr("many"), JInt(5), JInt(1))>>)
      [] doc = "aces key" ->
            JDict(<<KV("aces", JList(<<Pilot("Ace A", Victories(1), JInt(9), JInt(1))>>))>>)
      [] doc = "aces in campaign" ->
            JDict(<<KV("acesInCampaign",
                       JDict(<<KV("1", Pilot("Ace A", Victories(1), JInt(9), JInt(1)))>>))>>)
      [] doc = "aces unknown" -> JDict(<<KV("version", JInt(1))>>)
      [] doc = "null" -> None
      [] doc = "number" -> JInt(5)
      [] doc = "string" -> JStr("aces")
      [] doc = "aces key string" ->
            JDict(<<KV("aces", JStr("none")),
                    KV("acesInCampaign",
                       JDict(<<KV("1", Pilot("Ace A", Victories(1), JInt(9), JInt(1))),
                               KV("2", Pilot("Ace B", Victories(0), JInt(2), JInt(1)))>>))>>)
      [] doc = "aces in campaign array" ->
            JDict(<<KV("acesInCampaign",
                       JList(<<Pilot("Ace A", Victories(1), JInt(9), JInt(1))>>))>>)
      [] doc = "aces entry string" ->
            JList(<<Pilot("Ace A", Victories(1), JInt(9), JInt(1)), JStr("Ace B")>>)
      [] doc = "member fr" ->
            JDict(<<KV("squadronMemberCollection",
                       JDict(<<KV("p1", SquadronMember("Ace Pilot", "fr",
                                   <<JDict(<<KV("medalImage", JStr("croix.png"))>>),
                                     JDict(<<KV("medalName", JStr("Legion Honor"))>>)>>))>>))>>)
      [] doc = "member ger" ->
            JDict(<<KV("squadronMemberCollection",
                       JDict(<<KV("p1", SquadronMember("Other", "xx", <<>>)),
                               KV("p2", SquadronMember(" ACE PILOT ", "ger",
                                   <<JDict(<<KV("medalImage", JStr("Cross.PNG")),
                                             KV("medalName", JStr("Iron Cross"))>>),
                                     JDict(<<>>)>>)),
                               KV("p3", SquadronMember("ace pilot", "us",
                                   <<JDict(<<KV("medalName", JStr("DSC"))>>)>>))>>))>>)
      [] doc = "member jpg" ->
            JDict(<<KV("squadronMemberCollection",
                       JDict(<<KV("p1", JStr("not a member")),
                               KV("p2", SquadronMember("Ace Pilot", "Belgium",
                                   <<JDict(<<KV("medalImage", JStr("medals/croix.jpg"))>>),
                                     JDict(<<KV("medalName", JStr("  "))>>)>>))>>))>>)
      [] doc = "member bad medal" ->
            JDict(<<KV("squadronMemberCollection",
                       JDict(<<KV("p1", SquadronMember("Ace Pilot", "uk",
                                   <<JDict(<<KV("medalName", JStr("Military Cross"))>>),
                                     JStr("MC"),
                                     JDict(<<KV("medalImage", JStr("mc.png"))>>)>>))>>))>>)
      [] doc = "member collection array" ->
            JDict(<<KV("squadronMemberCollection",
                       JList(<<SquadronMember("Ace Pilot", "fr", <<>>)>>))>>)
      [] OTHER -> JDict(<<KV("document", JStr(doc))>>)

\* The Python value of what get_json_data returned.
Data(v) == IF v = None THEN None ELSE Json(v.doc)

\* isinstance(data, dict)
IsDict(v) == Data(v).t = "dict"

\* bytes -> text under open(encoding=..., errors=...)
Decode(f, encoding, errors) ==
    IF encoding = "utf-8"
    THEN IF f.charset = "utf-8"
         THEN Ret([doc |-> f.doc, json |-> f.json, chars |-> "exact"])
         ELSE IF errors = "replace"
              THEN Ret([doc |-> f.doc, json |-> f.json, chars |-> "replaced"])
              ELSE Raise("UnicodeDecodeError")
    ELSE Ret([doc |-> f.doc, json |-> f.json,
              chars |-> IF f.charset = "latin-1" THEN "exact" ELSE "mojibake"])

\* json.loads(text)
JsonLoads(text) ==
    IF text.json THEN Ret(JsonValue(text.doc, text.chars))
    ELSE Raise("JSONDecodeError")

\* with file_path.open('r', encoding=...) as f: json.load(f)
OpenAndLoad(f, encoding, errors) ==
    IF ~f.exists THEN Raise("FileNotFoundError")
    ELSE IF ~f.readable THEN Raise("PermissionError")
    ELSE LET text == Decode(f, encoding, errors)
         IN  IF text.kind = "raise" THEN text ELSE JsonLoads(text.val)


\* _load_json_file: the three attempts with the except clauses of each, and
\* the number of times the file was opened.
LoadJsonFile(f) ==
    IF ~f.exists THEN [out |-> Ret(None), reads |-> 0]
    ELSE
    LET s1 == OpenAndLoad(f, "utf-8", "strict")
        s2 == OpenAndLoad(f, "latin-1", "strict")
        s3 == OpenAndLoad(f, "utf-8", "replace")
    IN  IF s1.kind = "return" THEN [out |-> s1, reads |-> 1]
        ELSE IF ~Caught(s1, {"JSONDecodeError"})
        THEN [out |-> IF Caught(s1, {"FileNotFoundError", "PermissionError",
                                     "OSError"})
                      THEN Ret(None) ELSE s1,
              reads |-> 1]
        ELSE IF s2.kind = "return" THEN [out |-> s2, reads |-> 2]
        ELSE IF ~Caught(s2, {"JSONDecodeError"})
        THEN [out |-> IF Caught(s2, {"FileNotFoundError", "PermissionError",
                                     "OSError"})
                      THEN Ret(None) ELSE s2,
              reads |-> 2]
        ELSE IF s3.kind = "return" THEN [out |-> s3, reads |-> 3]
        ELSE [out |-> IF Caught(s3, {"OSError", "JSONDecodeError"})
                      THEN Ret(None) ELSE s3,
              reads |-> 3]

(***************************************************************************)
(* Paths.  Path.resolve() maps an input path to its canonical form, or     *)
(* raises for a path it cannot canonicalize.                               *)
(***************************************************************************)
BrokenPath == "broken/a.json"
InputPaths == {"a.json", "sub/../a.json", "b.json", BrokenPath}

Resolve(p) ==
    CASE p \in {"a.json", "sub/../a.json"} -> Ret("/camp/a.json")
      [] p = "b.json" -> Ret("/camp/b.json")
      [] p = "missing.json" -> Ret("/camp/missing.json")
      [] p = BrokenPath -> Raise("OSError")
      [] OTHER -> Ret(p)

\* The combat reports of the player: one file fewer than the cache holds,
\* the first written being the report of 1 January 1918.  They and b.json
\* are valid UTF-8 JSON throughout; a.json is rewritten.
ReportCount == maxsize - 1
ReportFile(k) == "/camp/CombatReports/7/" \o ToString(k) \o ".json"
ReportFiles == [k \in 1..ReportCount |-> ReportFile(k)]
\* The file an open() of path p reaches.
FileAt(d, p) ==
    IF p \in {"/camp/a.json", "a.json", "sub/../a.json", BrokenPath} THEN d
    ELSE IF p \in {"/camp/b.json", "b.json"} THEN Utf8File("d2")
    ELSE IF \E k \in 1..ReportCount : p = ReportFile(k)
    THEN Utf8File(IF p = ReportFile(1) THEN "report 19180101"
                  ELSE "report 19171231")
    ELSE MissingFile

(***************************************************************************)
(* @lru_cache(maxsize=128) on the method _get_json_data_cached: one cache  *)
(* for the class, keyed by the call's arguments (self, file_path_str).     *)
(* The sequence holds the entries least recently used first.               *)
(***************************************************************************)
KeyIndex(c, i, p) ==
    IF \E k \in 1..Len(c) : c[k].self = i /\ c[k].path = p
    THEN CHOOSE k \in 1..Len(c) : c[k].self = i /\ c[k].path = p
    ELSE 0

Without(c, k) == SubSeq(c, 1, k - 1) \o SubSeq(c, k + 1, Len(c))

\* A miss of the wrapper: r is what _load_json_file gave.  A returned value
\* is stored, in place of the least recently used entry when the cache is
\* full; an exception stores nothing.
CacheMiss(c, i, p, r) ==
    IF r.out.kind = "raise"
    THEN [out |-> r.out, cache |-> c, reads |-> r.reads, hit |-> FALSE]
    ELSE [out |-> r.out,
          cache |-> Append(IF Len(c) >= maxsize THEN Tail(c) ELSE c,
                           [self |-> i, path |-> p, val |-> r.out.val]),
          reads |-> r.reads, hit |-> FALSE]

CacheHit(c, k) ==
    [out |-> Ret(c[k].val), cache |-> Append(Without(c, k), c[k]),
     reads |-> 0, hit |-> TRUE]

\* A wrapper that finds the entry but reads the file again all the same.
GetJsonDataCached_Reread(c, f, i, p) ==
    IF KeyIndex(c, i, p) # 0
    THEN CacheMiss(Without(c, KeyIndex(c, i, p)), i, p, LoadJsonFile(f))
    ELSE CacheMiss(c, i, p, LoadJsonFile(f))

\* _get_json_data_cached(self, file_path_str): a hit returns the stored
\* value and refreshes the entry; a miss calls _load_json_file.  f is the
\* file the path leads to at the time of the call.
GetJsonDataCached(c, f, i, p) ==
    IF KeyIndex(c, i, p) # 0
    THEN CacheHit(c, KeyIndex(c, i, p))
    ELSE CacheMiss(c, i, p, LoadJsonFile(f))

\* The try block of get_json_data: resolve, then the cached load.
TryCached(c, f, i, p) ==
    IF Resolve(p).kind = "raise"
    THEN [out |-> Resolve(p), cache |-> c, reads |-> 0, hit |-> FALSE]
    ELSE GetJsonDataCached(c, f, i, Resolve(p).val)

\* The except clause of get_json_data: (TypeError, ValueError, OSError) from
\* the try block sends the call to _load_json_file on the path as given,
\* outside any try (again is that load).
ExceptFallback(tried, again) ==
    IF Caught(tried.out, {"TypeError", "ValueError", "OSError"})
    THEN [out |-> again.out, cache |-> tried.cache,
          reads |-> tried.reads + again.reads, hit |-> FALSE]
    ELSE tried

\* get_json_data
GetJsonDataResult(c, f, i, p) ==
    ExceptFallback(TryCached(c, f, i, p), LoadJsonFile(f))

\* One pass of the loading loop of get_combat_reports: the dict payload is
\* kept, any other is dropped, an exception ends the call.
ReportLoaded(r) ==
    [out |-> IF r.out.kind = "raise" THEN r.out
             ELSE Ret(IF IsDict(r.out.val) THEN <<r.out.val>> ELSE <<>>),
     cache |-> r.cache, reads |-> r.reads]

JoinLoads(left, right) ==
    [out |-> IF right.out.kind = "raise" THEN right.out
             ELSE Ret(left.out.val \o right.out.val),
     cache |-> right.cache, reads |-> left.reads + right.reads]

\* The loading loop of get_combat_reports over files[lo..hi], in order, each
\* file through get_json_data.  (The range is halved so that the evaluation
\* nests only logarithmically; the loads still happen left to right.)
RECURSIVE LoadReports(_, _, _, _, _, _)
LoadReportsAfter(left, d, i, files, lo, hi) ==
    IF left.out.kind = "raise" THEN left
    ELSE JoinLoads(left, LoadReports(left.cache, d, i, files, lo, hi))

LoadReports(c, d, i, files, lo, hi) ==
    IF lo > hi THEN [out |-> Ret(<<>>), cache |-> c, reads |-> 0]
    ELSE IF lo = hi THEN ReportLoaded(GetJsonDataResult(c, FileAt(d, files[lo]), i, files[lo]))
    ELSE LoadReportsAfter(LoadReports(c, d, i, files, lo, (lo + hi) \div 2),
                          d, i, files, (lo + hi) \div 2 + 1, hi)

\* files.sort(key=mtime, reverse=True): report k was written k-th.
ByMtimeDescending(files) == [k \in 1..Len(files) |-> files[Len(files) + 1 - k]]

(***************************************************************************)
(* JsonBatchRepository                                                     *)
(***************************************************************************)
\* The attributes class IL2DataParser defines (data_parser.py).
ParserAttributes ==
    {"__init__", "pwcgfc_path", "campaigns_path", "_get_json_data_cached",
     "get_json_data", "_load_json_file", "get_campaigns", "get_campaign_info",
     "get_campaign_aces", "get_squadron_personnel", "get_combat_reports",
     "get_mission_data", "_clean_pilot_name", "_is_valid_date_string",
     "_collect_mission_file_candidates", "_find_mission_file_matches"}

\* getattr(parser, name)
GetAttr(name) ==
    IF name \in ParserAttributes THEN Ret(name) ELSE Raise("AttributeError")

\* The batch load as the specification describes it: load per path, in
\* order, into a map from path to payload.
PathLoaded(path, r) ==
    [out |-> IF r.out.kind = "raise" THEN r.out
             ELSE Ret(<<[path |-> path, payload |-> r.out.val]>>),
     cache |-> r.cache, reads |-> r.reads]

RECURSIVE GetJsonMany(_, _, _, _)
GetJsonManyAfter(first, d, i, paths) ==
    IF first.out.kind = "raise" THEN first
    ELSE JoinLoads(first, GetJsonMany(first.cache, d, i, paths))

GetJsonMany(c, d, i, paths) ==
    IF paths = <<>> THEN [out |-> Ret(<<>>), cache |-> c, reads |-> 0]
    ELSE GetJsonManyAfter(
             PathLoaded(Head(paths),
                        GetJsonDataResult(c, FileAt(d, Head(paths)), i, Head(paths))),
             d, i, Tail(paths))

CountLoaded(payload) ==
    Cardinality({k \in 1..Len(payload) : payload[k].payload # None})

\* The return statement of load_many.
WithStats(paths, got) ==
    IF got.out.kind = "raise" THEN got
    ELSE [out |-> Ret([payload |-> got.out.val,
                       stats |-> [requested |-> Len(paths),
                                  loaded |-> CountLoaded(got.out.val)]]),
          cache |-> got.cache, reads |-> got.reads]

\* load_many: self._parser.get_json_many(path_list), then the statistics.
LoadManyResult(c, d, i, paths) ==
    IF GetAttr("get_json_many").kind = "raise"
    THEN [out |-> GetAttr("get_json_many"), cache |-> c, reads |-> 0]
    ELSE WithStats(paths, GetJsonMany(c, d, i, paths))

(***************************************************************************)
(* SpecLoader                                                              *)
(***************************************************************************)
Call(op, i, p, ps, out, reads, hit) ==
    [op |-> op, self |-> i, path |-> p, paths |-> ps, out |-> out,
     reads |-> reads, hit |-> hit]

\* What a.json may hold: no file, a file that cannot be opened, malformed
\* JSON, bytes that are JSON in no encoding, a Latin-1 or a UTF-8 document.
Contents ==
    {MissingFile, File(TRUE, FALSE, "utf-8", FALSE, ""), MalformedFile,
     File(TRUE, TRUE, "latin-1", FALSE, ""), Latin1File("d1")}
    \cup {Utf8File(d) : d \in Docs}


LoaderInit ==
    /\ disk = Utf8File("d1")
    /\ cache = <<>>
    /\ heap = <<>>
    /\ call = Call("none", "", "", <<>>, Ret(None), 0, FALSE)

\* The campaign generator (or the user) rewrites, removes or locks a file.
WriteFile(s) ==
    /\ s # disk
    /\ disk' = s
    /\ call' = Call("write", "", "/camp/a.json", <<>>, Ret(None), 0, FALSE)
    /\ UNCHANGED <<cache, heap>>

GetJsonDataDone(i, p, r) ==
    /\ cache' = r.cache
    /\ call' = Call("get_json_data", i, p, <<>>, r.out, r.reads, r.hit)
    /\ UNCHANGED <<disk, heap>>

GetJsonData(i, p) ==
    GetJsonDataDone(i, p, GetJsonDataResult(cache, FileAt(disk, p), i, p))

GetCombatReportsDone(i, r) ==
    /\ cache' = r.cache
    /\ call' = Call("get_combat_reports", i, "7", <<>>,
                    IF r.out.kind = "raise" THEN r.out
                    ELSE Ret([t |-> "reports", n |-> Len(r.out.val)]),
                    r.reads, FALSE)
    /\ UNCHANGED <<disk, heap>>

GetCombatReports(i) ==
    GetCombatReportsDone(i, LoadReports(cache, disk, i,
                                        ByMtimeDescending(ReportFiles),
                                        1, ReportCount))

LoadManyDone(i, paths, r) ==
    /\ cache' = r.cache
    /\ call' = Call("load_many", i, "", paths, r.out, r.reads, FALSE)
    /\ UNCHANGED <<disk, heap>>

LoadMany(i, paths) == LoadManyDone(i, paths, LoadManyResult(cache, disk, i, paths))

LoaderNext ==
    \/ \E s \in Contents : WriteFile(s)
    \/ \E i \in Parsers, p \in InputPaths : GetJsonData(i, p)
    \/ \E i \in Parsers : GetCombatReports(i)
    \/ \E i \in Parsers, paths \in {<<"a.json", "b.json", "missing.json">>} : LoadMany(i, paths)

vars == <<disk, cache, call, heap>>

SpecLoader == LoaderInit /\ [][LoaderNext]_vars

(***************************************************************************)
(* Claims about the loader                                                 *)
(***************************************************************************)
\* C1: get_json_data never raises: whatever the file is (missing,
\* unreadable, not UTF-8, not JSON), the call returns.
C1_GetJsonDataNeverRaises ==
    call.op = "get_json_data" => call.out.kind = "return"

\* C2: a load that reads a file holding Latin-1 JSON (bytes that are not
\* valid UTF-8) returns the value of its Latin-1 decoding.
C2_Latin1FileLoads ==
    (/\ call.op = "get_json_data"
     /\ ~call.hit
     /\ FileAt(disk, call.path) = Latin1File("d1"))
    => call.out = Ret(JsonValue("d1", "exact"))

C6_LoadManyStats ==
    call.op = "load_many"
    => (/\ call.out.kind = "return"
        /\ Len(call.out.val.payload) = Len(call.paths)
        /\ call.out.val.stats.requested = Len(call.paths)
        /\ call.out.val.stats.loaded = CountLoaded(call.out.val.payload))

(***************************************************************************)
(* SpecBatch: JsonBatchRepository.resolve_many over loaded maps            *)
(***************************************************************************)
MaxBatch == 3


\* A dict path -> payload in insertion order: entries with distinct paths.
LoadedMaps ==
    UNION {{m \in [1..n -> [path : {"a.json", "b.json", "missing.json"},
                            payload : {None} \cup {JsonValue(d, "exact") :
                                                     d \in Docs}]] :
              \A j, k \in 1..n : j # k => m[j].path # m[k].path}
           : n \in 0..MaxBatch}

\* The resolver functions handed to resolve_many: resolver(path, payload)
\* returns an item or None.
Item(v) == [t |-> "item", v |-> v]
ResolverApply(fn, path, payload) ==
    CASE fn = "doc" -> Item(payload.doc)
      [] fn = "path_of_d1" -> IF payload.doc = "d1" THEN Item(path) ELSE None
      [] fn = "path" -> Item(path)
      [] OTHER -> None

\* A loop that appends whatever the resolver returns.
RECURSIVE ResolveMany_KeepNone(_, _)
ResolveMany_KeepNone(loaded, fn) ==
    IF loaded = <<>> THEN [resolved |-> <<>>, calls |-> <<>>]
    ELSE LET e == Head(loaded)
             rest == ResolveMany_KeepNone(Tail(loaded), fn)
         IN  IF e.payload = None THEN rest
             ELSE [resolved |-> <<ResolverApply(fn, e.path, e.payload)>>
                                \o rest.resolved,
                   calls |-> <<<<e.path, e.payload>>>> \o rest.calls]

\* resolve_many: for each entry in the dict's order, skip a None payload,
\* call the resolver, keep the item unless it is None.  calls lists the
\* resolver's invocations.
RECURSIVE ResolveMany(_, _)
ResolveMany(loaded, fn) ==
    IF loaded = <<>> THEN [resolved |-> <<>>, calls |-> <<>>]
    ELSE LET e == Head(loaded)
             rest == ResolveMany(Tail(loaded), fn)
             item == ResolverApply(fn, e.path, e.payload)
         IN  IF e.payload = None THEN rest
             ELSE [resolved |-> IF item # None THEN <<item>> \o rest.resolved
                                ELSE rest.resolved,
                   calls |-> <<<<e.path, e.payload>>>> \o rest.calls]

BatchInit ==
    /\ disk = Utf8File("d1")
    /\ cache = <<>>
    /\ heap = <<>>
    /\ call = [op |-> "none", loaded |-> <<>>, resolver |-> "never",
               out |-> Ret(<<>>), calls |-> <<>>]

ResolveManyCall(loaded, fn) ==
    LET r == ResolveMany(loaded, fn)
    IN  /\ call' = [op |-> "resolve_many", loaded |-> loaded, resolver |-> fn,
                    out |-> Ret(r.resolved), calls |-> r.calls]
        /\ UNCHANGED <<disk, cache, heap>>

BatchNext ==
    \E loaded \in LoadedMaps, fn \in {"doc", "path_of_d1", "path", "never"} :
        ResolveManyCall(loaded, fn)

SpecBatch == BatchInit /\ [][BatchNext]_vars

NonNull(loaded) == SelectSeq(loaded, LAMBDA e : e.payload # None)

\* C7: resolve_many calls the resolver exactly once per entry with a
\* non-null payload, in the map's order, and never for a null payload; it
\* returns exactly the non-null resolver results in that order.
C7_ResolveManyKeepsNonNull ==
    call.op = "resolve_many" =>
        LET nn == NonNull(call.loaded)
            results == [k \in 1..Len(nn) |->
                          ResolverApply(call.resolver, nn[k].path, nn[k].payload)]
        IN  /\ call.calls = [k \in 1..Len(nn) |-> <<nn[k].path, nn[k].payload>>]
            /\ call.out = Ret(SelectSeq(results, LAMBDA x : x # None))

\* C7's case: a map with a null payload, a payload the resolver rejects and
\* a payload it resolves.
C7_Witness ==
    /\ call.op = "resolve_many"
    /\ Len(call.loaded) = 3
    /\ call.loaded[1].payload = None
    /\ Len(call.calls) = 2
    /\ Len(call.out.val) = 1

(***************************************************************************)
(* Strings: str.lower(), the `in` operator, str.strip(), str.isdigit(),    *)
(* int()                                                                   *)
(***************************************************************************)
DigitChars == "0123456789"

CharAt(s, k) == IF k >= 1 /\ k <= Len(s) THEN SubSeq(s, k, k) ELSE ""

IndexIn(alphabet, ch) ==
    IF \E k \in 1..Len(alphabet) : SubSeq(alphabet, k, k) = ch
    THEN CHOOSE k \in 1..Len(alphabet) : SubSeq(alphabet, k, k) = ch
    ELSE 0

LowerChar(ch) ==
    IF IndexIn("ABCDEFGHIJKLMNOPQRSTUVWXYZ", ch) # 0
    THEN CharAt("abcdefghijklmnopqrstuvwxyz",
                IndexIn("ABCDEFGHIJKLMNOPQRSTUVWXYZ", ch))
    ELSE ch

\* s.lower()
RECURSIVE Lower(_)
Lower(s) ==
    IF s = "" THEN "" ELSE LowerChar(CharAt(s, 1)) \o Lower(SubSeq(s, 2, Len(s)))

\* sub in s
Contains(sub, s) ==
    \E k \in 0..(Len(s) - Len(sub)) : SubSeq(s, k + 1, k + Len(sub)) = sub

StartsWith(s, prefix) ==
    Len(s) >= Len(prefix) /\ SubSeq(s, 1, Len(prefix)) = prefix

EndsWith(s, suffix) ==
    Len(s) >= Len(suffix) /\ SubSeq(s, Len(s) - Len(suffix) + 1, Len(s)) = suffix

\* s.strip()
RECURSIVE Strip(_)
Strip(s) ==
    IF s = "" THEN ""
    ELSE IF CharAt(s, 1) \in {" ", "\t", "\n", "\r"} THEN Strip(SubSeq(s, 2, Len(s)))
    ELSE IF CharAt(s, Len(s)) \in {" ", "\t", "\n", "\r"} THEN Strip(SubSeq(s, 1, Len(s) - 1))
    ELSE s

\* s.isdigit()
IsDigit(s) == s # "" /\ \A k \in 1..Len(s) : IndexIn(DigitChars, CharAt(s, k)) # 0

\* int(s) of a string of digits
RECURSIVE ToInt(_)
ToInt(s) ==
    IF s = "" THEN 0
    ELSE 10 * ToInt(SubSeq(s, 1, Len(s) - 1))
         + IndexIn(DigitChars, CharAt(s, Len(s))) - 1

(***************************************************************************)
(* _clean_pilot_name.  The two patterns are raw strings with doubled       *)
(* backslashes, so the regular expressions they denote are                 *)
(*   ^(?:Lieutenant|...|Maj) \\ .? \\ s*     and     \\ s+                  *)
(* where \\ is one literal backslash: the rank must be followed by a       *)
(* backslash, at most one character, a backslash and a run of the letter   *)
(* s; what the second pattern replaces is a backslash and a run of s.      *)
(***************************************************************************)
Ranks ==
    <<"Lieutenant", "Ltn", "Fw", "Obltn", "Cne", "S/Lt", "Sergt", "Lt",
      "Capt", "Major", "Maj">>

Backslash == "\\"

\* The first position at or after k whose character is not in chars.
RECURSIVE SkipRun(_, _, _)
SkipRun(s, k, chars) ==
    IF CharAt(s, k) \in chars THEN SkipRun(s, k + 1, chars) ELSE k

\* Where a match of  \\.?\\s*  that starts at position k ends (the position
\* after it), 0 when there is none; .? is greedy and matches no newline,
\* and under re.IGNORECASE s matches S as well.
RankTailEnd(s, k) ==
    IF CharAt(s, k) # Backslash THEN 0
    ELSE IF CharAt(s, k + 1) \notin {"", "\n"} /\ CharAt(s, k + 2) = Backslash
    THEN SkipRun(s, k + 3, {"s", "S"})
    ELSE IF CharAt(s, k + 1) = Backslash
    THEN SkipRun(s, k + 2, {"s", "S"})
    ELSE 0

\* Where the match of the rank pattern ends in s, 0 when it does not match:
\* the alternatives are tried in the order written.
RankMatchEnd(s) ==
    LET fits(k) == /\ StartsWith(Lower(s), Lower(Ranks[k]))
                   /\ RankTailEnd(s, Len(Ranks[k]) + 1) # 0
    IN  IF \E k \in 1..Len(Ranks) : fits(k)
        THEN LET first == CHOOSE k \in 1..Len(Ranks) :
                              fits(k) /\ \A j \in 1..(k - 1) : ~fits(j)
             IN  RankTailEnd(s, Len(Ranks[first]) + 1)
        ELSE 0

\* re.sub(r'\\s+', ' ', s)
RECURSIVE SubBackslashS(_)
SubBackslashS(s) ==
    IF s = "" THEN ""
    ELSE IF CharAt(s, 1) = Backslash /\ CharAt(s, 2) = "s"
    THEN " " \o SubBackslashS(SubSeq(s, SkipRun(s, 2, {"s"}), Len(s)))
    ELSE CharAt(s, 1) \o SubBackslashS(SubSeq(s, 2, Len(s)))

CleanPilotName(pilot_name) ==
    Strip(SubBackslashS(Strip(
        IF RankMatchEnd(pilot_name) = 0 THEN pilot_name
        ELSE SubSeq(pilot_name, RankMatchEnd(pilot_name), Len(pilot_name)))))

(***************************************************************************)
(* Dates: _is_valid_date_string, strptime('%Y%m%d'), strftime('%Y-%m-%d')  *)
(***************************************************************************)
IsValidDateString(date_str) ==
    date_str # "" /\ Len(date_str) = 8 /\ IsDigit(date_str)


DaysInMonth(y, m) ==
    IF m = 2 THEN (IF y % 4 = 0 /\ (y % 100 # 0 \/ y % 400 = 0) THEN 29 ELSE 28)
    ELSE IF m \in {4, 6, 9, 11} THEN 30
    ELSE 31

\* datetime.strptime(s, '%Y%m%d') of eight digits: the year, month and day
\* fields, or ValueError when they name no calendar day.
Strptime(s) ==
    LET y == ToInt(SubSeq(s, 1, 4))
        m == ToInt(SubSeq(s, 5, 6))
        d == ToInt(SubSeq(s, 7, 8))
    IN  IF y >= 1 /\ m \in 1..12 /\ d \in 1..DaysInMonth(y, m)
        THEN Ret([year |-> SubSeq(s, 1, 4), month |-> SubSeq(s, 5, 6),
                  day |-> SubSeq(s, 7, 8)])
        ELSE Raise("ValueError")

\* date_obj.strftime('%Y-%m-%d')
Strftime(date_obj) ==
    date_obj.year \o "-" \o date_obj.month \o "-" \o date_obj.day

(***************************************************************************)
(* The MissionData directory.  A listing is the directory's entries in     *)
(* the order the operating system enumerates them; an entry has the file   *)
(* name, the modification time stat() reports and the file open() reaches. *)
(* A dangling symbolic link is listed, but stat() of it raises and no file *)
(* exists behind it.                                                       *)
(***************************************************************************)
Entry(name, mtime, file) == [name |-> name, mtime |-> mtime, file |-> file]

\* mission_data_dir.glob(pattern) for the three patterns of the code
Glob(listing, suffix) == SelectSeq(listing, LAMBDA f : EndsWith(f.name, suffix))

\* The first occurrence of each path, in order.
RECURSIVE Unique(_)
Unique(files) ==
    IF files = <<>> THEN <<>>
    ELSE <<Head(files)>>
         \o Unique(SelectSeq(Tail(files), LAMBDA f : f.name # Head(files).name))

\* _collect_mission_file_candidates
CollectMissionFileCandidates(listing) ==
    Unique(Glob(listing, "MissionData.json")
           \o Glob(listing, ".MissionData.json")
           \o Glob(listing, ".json"))

(***************************************************************************)
(* _find_mission_file_matches: the four levels, and the debug line that    *)
(* tells which level produced the list.                                    *)
(***************************************************************************)
DateAndPilot(candidates, lower_pilot, lower_date) ==
    SelectSeq(candidates,
              LAMBDA f : /\ Contains(lower_date, Lower(f.name))
                         /\ (lower_pilot = "" \/ Contains(lower_pilot, Lower(f.name))))

PilotOnly(candidates, lower_pilot) ==
    SelectSeq(candidates, LAMBDA f : Contains(lower_pilot, Lower(f.name)))

DateOnly(candidates, lower_date) ==
    SelectSeq(candidates, LAMBDA f : Contains(lower_date, Lower(f.name)))

\* re.compile(r'\\d{4}-\\d{2}-\\d{2}'): a raw string with doubled
\* backslashes, so the expression is a literal backslash followed by dddd,
\* a hyphen, a backslash, dd, a hyphen, a backslash, dd.  search() finds
\* that text in the name or finds nothing.

DateRegexSearch(name) ==
    IF Contains("\\dddd-\\dd-\\dd", name) THEN [t |-> "Match", group |-> "\\dddd-\\dd-\\dd"]
    ELSE None

\* A last level that takes every name the expression matches, whatever
\* the date looked for.
Nearest_AnyDate(candidates, date_str_dashed) ==
    SelectSeq(candidates, LAMBDA f : DateRegexSearch(f.name) # None)

Nearest(candidates, date_str_dashed) ==
    SelectSeq(candidates,
              LAMBDA f : /\ DateRegexSearch(f.name) # None
                         /\ DateRegexSearch(f.name).group = date_str_dashed)

Matched(matches, log) == [matches |-> matches, log |-> log]

\* The first non-empty list with the debug line of its level.
FirstLevel(both, pilot, date, nearest) ==
    IF both # <<>> THEN Matched(both, "data+piloto")
    ELSE IF pilot # <<>> THEN Matched(pilot, "piloto")
    ELSE IF date # <<>> THEN Matched(date, "data")
    ELSE IF nearest # <<>> THEN Matched(nearest, "regex")
    ELSE Matched(<<>>, "")

\* A search that looks for the date before it looks for the pilot.
FindMissionFileMatches_DateFirst(candidates, pilot_name_clean, date_str_dashed) ==
    FirstLevel(DateAndPilot(candidates, Lower(pilot_name_clean), Lower(date_str_dashed)),
               <<>>,
               DateOnly(candidates, Lower(date_str_dashed)),
               IF Lower(pilot_name_clean) # ""
               THEN PilotOnly(candidates, Lower(pilot_name_clean)) ELSE <<>>)

\* A search without the pilot-only level.
FindMissionFileMatches_NoPilotLevel(candidates, pilot_name_clean, date_str_dashed) ==
    FirstLevel(DateAndPilot(candidates, Lower(pilot_name_clean), Lower(date_str_dashed)),
               <<>>,
               DateOnly(candidates, Lower(date_str_dashed)),
               Nearest(candidates, date_str_dashed))

\* _find_mission_file_matches: each level is computed only when the levels
\* before it are empty, and the pilot-only level only for a pilot name.
FindMissionFileMatches(candidates, pilot_name_clean, date_str_dashed) ==
    FirstLevel(DateAndPilot(candidates, Lower(pilot_name_clean), Lower(date_str_dashed)),
               IF Lower(pilot_name_clean) # ""
               THEN PilotOnly(candidates, Lower(pilot_name_clean)) ELSE <<>>,
               DateOnly(candidates, Lower(date_str_dashed)),
               Nearest(candidates, date_str_dashed))

\* get_mission_data from the report's fields to the matching candidates:
\* the cleaned pilot name, the date check and conversion, the candidates
\* and the search.  found tells why the call returns {} before any file is
\* loaded, or that the search ran.
Search(pilot, dashed, found, candidates, m) ==
    [pilot_name_clean |-> pilot, date_str_dashed |-> dashed, found |-> found,
     candidates |-> candidates, matches |-> m.matches, log |-> m.log]

SearchIn(candidates, pilot_name_clean, date_str_dashed) ==
    IF candidates = <<>>
    THEN Search(pilot_name_clean, date_str_dashed, "no candidates", <<>>,
                Matched(<<>>, ""))
    ELSE Search(pilot_name_clean, date_str_dashed, "searched", candidates,
                FindMissionFileMatches(candidates, pilot_name_clean, date_str_dashed))

SearchOn(listing, pilot_name_clean, date_obj) ==
    IF date_obj.kind = "raise"
    THEN Search(pilot_name_clean, "", "no such day", <<>>, Matched(<<>>, ""))
    ELSE SearchIn(CollectMissionFileCandidates(listing), pilot_name_clean,
                  Strftime(date_obj.val))

MissionMatches(listing, pilot_name, date_str_yyyymmdd) ==
    IF ~IsValidDateString(date_str_yyyymmdd)
    THEN Search(CleanPilotName(pilot_name), "", "invalid date", <<>>, Matched(<<>>, ""))
    ELSE SearchOn(listing, CleanPilotName(pilot_name), Strptime(date_str_yyyymmdd))

(***************************************************************************)
(* SpecMatcher: the search of get_mission_data over directory listings     *)
(***************************************************************************)
MaxListing == 3

MissionFileNames ==
    {"19180101_SchmidtA.json", "19180101_Other.json",
     "Schmidt 1918-01-01.MissionData.json", "1918-01-01.json",
     "SCHMIDT.json", "\\dddd-\\dd-\\dd.json"}


Names(files) == [k \in 1..Len(files) |-> files[k].name]

Listings ==
    UNION {{l \in [1..n -> {Entry(name, 1, Utf8File("d1")) : name \in MissionFileNames}] :
              \A j, k \in 1..n : j # k => l[j].name # l[k].name}
           : n \in 0..MaxListing}

\* The directory as it is found and the report to look up, or the
\* arguments of a search of the directory's files.
MatcherInit ==
    /\ disk \in Listings
    /\ cache = <<>>
    /\ heap = <<>>
    /\ call \in [op : {"report"},
                 pilot : {"Schmidt", "", "Lt. Hans  Schmidt", "Lt\\.\\sSchmidt"},
                 date : {"19180101", "19180230", "1918-01-01", ""}]
            \cup [op : {"candidates"},
                  pilot : {"Schmidt", ""},
                  date : {"1918-01-01", "1918-01-02", "\\dddd-\\dd-\\dd",
                          "\\DDDD-\\DD-\\DD"}]

MatchReport ==
    /\ call.op = "report"
    /\ call' = [op |-> "match_report", pilot |-> call.pilot, date |-> call.date,
                out |-> MissionMatches(disk, call.pilot, call.date)]
    /\ UNCHANGED <<disk, cache, heap>>

\* _find_mission_file_matches(candidates, pilot_name_clean, date_str_dashed)
\* on the files of the directory, for any text as the date.
FindMatchesCall ==
    /\ call.op = "candidates"
    /\ call' = [op |-> "_find_mission_file_matches", pilot |-> call.pilot,
                date |-> call.date,
                out |-> Search(call.pilot, call.date, "searched", disk,
                               FindMissionFileMatches(disk, call.pilot, call.date))]
    /\ UNCHANGED <<disk, cache, heap>>

SpecMatcher == MatcherInit /\ [][MatchReport \/ FindMatchesCall]_vars

\* The case of C8: the two files of the example, the report of the example.
SchmidtExample ==
    /\ call.op = "match_report"
    /\ Len(disk) = 2
    /\ {disk[1].name, disk[2].name} = {"19180101_SchmidtA.json", "19180101_Other.json"}
    /\ call.pilot = "Schmidt"
    /\ call.date = "19180101"

\* C8 as stated: for the files "19180101_SchmidtA.json" and
\* "19180101_Other.json" and a report of 19180101 by Schmidt, the level of
\* date and pilot (Tier A) matches and selects the first file.
C8_TierASelectsSchmidtA ==
    SchmidtExample
    => (/\ call.out.log = "data+piloto"
        /\ Names(call.out.matches) = <<"19180101_SchmidtA.json">>)

\* C8, amended: for those files and that report the date searched for is
\* "1918-01-01", which neither name contains, so the level of date and
\* pilot is empty; the pilot-only level (Tier B) matches and selects
\* "19180101_SchmidtA.json" alone.
C8_TierBSelectsSchmidtA ==
    SchmidtExample
    => (/\ call.out.date_str_dashed = "1918-01-01"
        /\ DateAndPilot(call.out.candidates, "schmidt", "1918-01-01") = <<>>
        /\ call.out.log = "piloto"
        /\ Names(call.out.matches) = <<"19180101_SchmidtA.json">>)

C8_Witness ==
    /\ SchmidtExample
    /\ call.out.found = "searched"
    /\ Len(call.out.candidates) = 2
    /\ Len(call.out.matches) = 1

\* The levels as sets of candidates, in the order of the search; the
\* pilot-only level is empty when there is no pilot name.
Tiers(candidates, pilot_name_clean, date_str_dashed) ==
    <<SelectSeq(candidates,
                LAMBDA f : /\ Contains(Lower(date_str_dashed), Lower(f.name))
                           /\ Contains(Lower(pilot_name_clean), Lower(f.name))),
      SelectSeq(candidates,
                LAMBDA f : /\ pilot_name_clean # ""
                           /\ Contains(Lower(pilot_name_clean), Lower(f.name))),
      SelectSeq(candidates,
                LAMBDA f : Contains(Lower(date_str_dashed), Lower(f.name))),
      Nearest(candidates, date_str_dashed)>>

\* C9: the search returns exactly the candidates of the first non-empty
\* level in the order A (date and pilot), B (pilot only, empty without a
\* pilot name), C (date only), D (date pattern), and nothing when all are
\* empty; so a file of a lower level only is never returned when a higher
\* level has a match.
C9_FirstNonEmptyTierWins ==
    (call.op = "match_report" /\ call.out.found = "searched")
    => LET tiers == Tiers(call.out.candidates, call.out.pilot_name_clean,
                          call.out.date_str_dashed)
       IN  /\ \A k \in 1..Len(tiers) :
                (tiers[k] # <<>> /\ \A j \in 1..(k - 1) : tiers[j] = <<>>)
                => call.out.matches = tiers[k]
           /\ (\A k \in 1..Len(tiers) : tiers[k] = <<>>) => call.out.matches = <<>>

\* C9's case: no file has both the date and the pilot, one has the pilot's
\* name and another only the date; the search returns the first and not
\* the second.
C9_Witness ==
    /\ call.op = "match_report"
    /\ call.out.found = "searched"
    /\ call.out.pilot_name_clean = "Schmidt"
    /\ Names(call.out.matches) = <<"SCHMIDT.json">>
    /\ \E k \in 1..Len(call.out.candidates) :
          call.out.candidates[k].name = "1918-01-01.json"

\* C11: _clean_pilot_name removes a leading rank of the listed set (with an
\* optional dot and the spaces after it) and collapses runs of whitespace to
\* one space: the report pilot "Lt. Hans  Schmidt" is searched for as
\* "Hans Schmidt".
C11_CleanPilotNameStripsRank ==
    (call.op = "match_report" /\ call.pilot = "Lt. Hans  Schmidt")
    => call.out.pilot_name_clean = "Hans Schmidt"

(***************************************************************************)
(* get_mission_data: the search, the ordering by modification time and     *)
(* the loading of the candidates                                           *)
(***************************************************************************)
\* {}
EmptyDict == JsonValue("{}", "exact")

RECURSIVE SortedByMtime(_)
SortedByMtime(files) ==
    IF files = <<>> THEN <<>>
    ELSE LET k == CHOOSE k \in 1..Len(files) :
                      /\ \A j \in 1..Len(files) : files[j].mtime <= files[k].mtime
                      /\ \A j \in 1..(k - 1) : files[j].mtime < files[k].mtime
         IN  <<files[k]>> \o SortedByMtime(Without(files, k))

\* match_candidates.sort(key=lambda p: p.stat().st_mtime, reverse=True)
\* inside try/except OSError: the sort is stable, and when a stat() raises
\* (it does for a dangling link) the list keeps the order it had.
SortCandidates(match_candidates) ==
    IF \E k \in 1..Len(match_candidates) : ~match_candidates[k].file.exists
    THEN match_candidates
    ELSE SortedByMtime(match_candidates)

\* The loop over the candidates: get_json_data of each, the first dict is
\* returned; an exception of get_json_data leaves the loop and the call.
RECURSIVE TryCandidates(_, _, _, _)
TryCandidatesAfter(r, i, rest, tried) ==
    IF r.out.kind = "raise" \/ IsDict(r.out.val)
    THEN [out |-> r.out, cache |-> r.cache, tried |-> tried]
    ELSE TryCandidates(r.cache, i, rest, tried)

TryCandidates(c, i, files, tried) ==
    IF files = <<>> THEN [out |-> Ret(EmptyDict), cache |-> c, tried |-> tried]
    ELSE TryCandidatesAfter(
             GetJsonDataResult(c, Head(files).file, i,
                               "/camp/MissionData/" \o Head(files).name),
             i, Tail(files), Append(tried, Head(files).name))

LoadMatches(c, i, search) ==
    IF search.matches = <<>>
    THEN [out |-> Ret(EmptyDict), cache |-> c, tried |-> <<>>, search |-> search]
    ELSE [search |-> search]
         @@ TryCandidates(c, i, SortCandidates(search.matches), <<>>)

\* get_mission_data(campaign_name, report)
GetMissionDataResult(c, dir, i, pilot_name, date) ==
    IF ~dir.isdir
    THEN [out |-> Ret(EmptyDict), cache |-> c, tried |-> <<>>,
          search |-> Search("", "", "no directory", <<>>, Matched(<<>>, ""))]
    ELSE LoadMatches(c, i, MissionMatches(dir.entries, pilot_name, date))

(***************************************************************************)
(* SpecResolver: get_mission_data over MissionData directories             *)
(***************************************************************************)
ResolverFileNames ==
    {"Schmidt 1918-01-01.MissionData.json", "1918-01-01 Schmidt.json",
     "1918-01-01.json"}


\* The listings of the directory.  A mission file may be a JSON object
\* (the document is named after the file), a JSON array, a JSON object
\* written in Latin-1, or a dangling link.
ResolverListings ==
    UNION {{l \in [1..n -> UNION {{Entry(name, t, f) :
                                      t \in {1, 2},
                                      f \in {Utf8File(name), Utf8File(ArrayDoc),
                                             Latin1File(name), MissingFile}}
                                  : name \in ResolverFileNames}] :
              \A j, k \in 1..n : j # k => l[j].name # l[k].name}
           : n \in 0..Cardinality(ResolverFileNames)}

Directory(isdir, entries) == [isdir |-> isdir, entries |-> entries]


\* The directory as it is found, the cache empty, and the report to look up.
ResolverInit ==
    /\ disk \in {Directory(FALSE, <<>>)}
                \cup {Directory(TRUE, l) : l \in ResolverListings}
    /\ cache = <<>>
    /\ heap = <<>>
    /\ call \in [op : {"report"}, pilot : {"Schmidt", ""},
                 date : {"19180101", "19180230"}]

GetMissionDataDone(r) ==
    /\ cache' = r.cache
    /\ call' = [op |-> "get_mission_data", pilot |-> call.pilot, date |-> call.date,
                out |-> r.out, tried |-> r.tried, search |-> r.search]
    /\ UNCHANGED <<disk, heap>>

GetMissionData(i) ==
    /\ call.op = "report"
    /\ GetMissionDataDone(GetMissionDataResult(cache, disk, i, call.pilot, call.date))


SpecResolver == ResolverInit /\ [][GetMissionData("sync")]_vars

\* The file holds a JSON object (in whichever encoding).
HoldsObject(f) == f.file.exists /\ f.file.json /\ f.file.doc # ArrayDoc

\* C10: when the search has matches, get_mission_data returns, and what it
\* returns is the object of a matching file none of whose more recently
\* modified fellow matches holds an object, or {} when no match holds one.
C10_MostRecentObjectOfWinningTier ==
    (call.op = "get_mission_data" /\ call.search.matches # <<>>)
    => LET m == call.search.matches
       IN  /\ call.out.kind = "return"
           /\ IF \E k \in 1..Len(m) : HoldsObject(m[k])
              THEN \E k \in 1..Len(m) :
                      /\ HoldsObject(m[k])
                      /\ call.out.val.doc = m[k].name
                      /\ \A j \in 1..Len(m) :
                            m[j].mtime > m[k].mtime => ~HoldsObject(m[j])
              ELSE call.out.val = EmptyDict

(***************************************************************************)
(* IL2DataProcessor.process_missions_data                                  *)
(***************************************************************************)
\* The characters of the model's strings in code point order.
CodePoints ==
    "\t\n\r !#$%&()*+,-./0123456789:;<=>?@ABCDEFGHIJKLMNOPQRSTUVWXYZ[\\]^_abcdefghijklmnopqrstuvwxyz{|}~"

Ord(ch) == IndexIn(CodePoints, ch)

\* a < b on str
RECURSIVE StrLess(_, _)
StrLess(a, b) ==
    IF b = "" THEN FALSE
    ELSE IF a = "" THEN TRUE
    ELSE IF CharAt(a, 1) = CharAt(b, 1)
    THEN StrLess(SubSeq(a, 2, Len(a)), SubSeq(b, 2, Len(b)))
    ELSE Ord(CharAt(a, 1)) < Ord(CharAt(b, 1))

\* list.sort(key=...) on the keys: stable, ascending.
RECURSIVE SortedByKey(_)
SortedByKey(items) ==
    IF items = <<>> THEN <<>>
    ELSE LET k == CHOOSE k \in 1..Len(items) :
                      /\ \A j \in 1..Len(items) : ~StrLess(items[j].key, items[k].key)
                      /\ \A j \in 1..(k - 1) : StrLess(items[k].key, items[j].key)
         IN  <<items[k]>> \o SortedByKey(Without(items, k))

\* format_date
FormatDate(yyyymmdd) ==
    IF ~IsValidDateString(yyyymmdd) THEN yyyymmdd
    ELSE IF Strptime(yyyymmdd).kind = "raise" THEN yyyymmdd
    ELSE Strptime(yyyymmdd).val.day \o "/" \o Strptime(yyyymmdd).val.month
         \o "/" \o Strptime(yyyymmdd).val.year

\* get_mission_data on a report whose fields are JSON values: the pilot
\* name goes through re.sub (TypeError unless it is a str), the date through
\* bool(), len() and isdigit().
ReportPilotName(report) ==
    Or(Or(DictGet(report, "reportPilotName", None), JStr("")), JStr(""))

ReportDate(report) == Or(DictGet(report, "date", JStr("")), JStr(""))

GetMissionDataOfReport(c, dir, i, report) ==
    IF ~dir.isdir
    THEN [out |-> Ret(EmptyDict), cache |-> c]
    ELSE IF ReportPilotName(report).t # "str" \/ ReportDate(report).t = "int"
    THEN [out |-> Raise("TypeError"), cache |-> c]
    ELSE IF ReportDate(report).t # "str"
    THEN [out |-> Ret(EmptyDict), cache |-> c]
    ELSE GetMissionDataResult(c, dir, i, ReportPilotName(report).s,
                              ReportDate(report).s)

\* try: mission_details = get_mission_data(...) or {}
\* except (KeyError, TypeError, ValueError, OSError): mission_details = {}
MissionDetails(r) ==
    IF Caught(r.out, {"KeyError", "TypeError", "ValueError", "OSError"})
    THEN [out |-> Ret(JDict(<<>>)), cache |-> r.cache]
    ELSE IF r.out.kind = "raise" THEN [out |-> r.out, cache |-> r.cache]
    ELSE [out |-> Ret(Or(Data(r.out.val), JDict(<<>>))), cache |-> r.cache]

\* The lines of the haReport that name pilots.
RECURSIVE SplitLines(_)
SplitLines(text) ==
    IF text = "" THEN <<>>
    ELSE IF ~Contains("\n", text) THEN <<text>>
    ELSE LET k == CHOOSE k \in 1..Len(text) :
                      /\ CharAt(text, k) = "\n"
                      /\ \A j \in 1..(k - 1) : CharAt(text, j) # "\n"
         IN  <<SubSeq(text, 1, k - 1)>> \o SplitLines(SubSeq(text, k + 1, Len(text)))

PilotsInMission(ha_report) ==
    SelectSeq([k \in 1..Len(SplitLines(ha_report)) |-> Strip(SplitLines(ha_report)[k])],
              LAMBDA clean : /\ clean # ""
                             /\ ~StartsWith(Lower(clean), "this mission")
                             /\ ~StartsWith(Lower(clean), "the mission"))


DescriptionText(mission_details) ==
    IF Truthy(mission_details)
    THEN PyStr(DictGet(mission_details, "missionDescription",
                       JStr("Descrição da missão não encontrada.")))
    ELSE "Descrição da missão não encontrada."

\* re.search(r"(Weather Report.*?)$", description_text, DOTALL | IGNORECASE)
WeatherText(mission_details, description_text) ==
    IF Truthy(mission_details) /\ Contains("weather report", Lower(description_text))
    THEN LET k == CHOOSE k \in 1..Len(description_text) :
                      /\ StartsWith(Lower(SubSeq(description_text, k, Len(description_text))),
                                    "weather report")
                      /\ \A j \in 1..(k - 1) :
                            ~StartsWith(Lower(SubSeq(description_text, j, Len(description_text))),
                                        "weather report")
         IN  Strip(SubSeq(description_text, k, Len(description_text)))
    ELSE "Não disponível"

\* The search of missionPlanes for the player's serial: the squadronId of
\* the first item whose key is the serial (None when the item is no dict),
\* and what was known before when there is no such item or missionPlanes
\* has no items().
SquadronIdIn(mission_details, player_serial, before) ==
    LET mission_planes == Or(DictGet(mission_details, "missionPlanes", JDict(<<>>)),
                             JDict(<<>>))
    IN  IF mission_planes.t # "dict" THEN before
        ELSE IF ~HasKey(mission_planes, player_serial) THEN before
        ELSE IF DictGet(mission_planes, player_serial, None).t = "dict"
        THEN DictGet(DictGet(mission_planes, player_serial, None), "squadronId", None)
        ELSE None

Airfield(mission_details) ==
    IF DictGet(mission_details, "missionHeader", JDict(<<>>)).t = "dict"
    THEN DictGet(DictGet(mission_details, "missionHeader", JDict(<<>>)),
                 "airfield", JStr("NA"))
    ELSE JStr("NA")

MissionEntry(report, raw_date, mission_details) ==
    [date |-> IF raw_date # "" THEN JStr(FormatDate(raw_date))
              ELSE DictGet(report, "date", JStr("NA")),
     time |-> PyStr(DictGet(report, "time", JStr("NA"))),
     aircraft |-> DictGet(report, "type", JStr("NA")),
     duty |-> DictGet(report, "duty", JStr("NA")),
     locality |-> DictGet(report, "locality", JStr("NA")),
     airfield |-> Airfield(mission_details),
     pilots |-> PilotsInMission(PyStr(Or(DictGet(report, "haReport", None), JStr("")))),
     weather |-> WeatherText(mission_details, DescriptionText(mission_details)),
     description |-> DescriptionText(mission_details),
     haReport |-> DictGet(report, "haReport", JStr(""))]

\* A pass that searches missionPlanes whether or not an id is known.
ReportProcessed_LastWins(acc, report, k, player_serial, raw_date, md) ==
    IF md.out.kind = "raise"
    THEN [acc EXCEPT !.out = md.out, !.cache = md.cache]
    ELSE [out |-> acc.out,
          cache |-> md.cache,
          missions_with_key |->
              Append(acc.missions_with_key,
                     [key |-> IF raw_date # "" THEN raw_date ELSE "99999999",
                      entry |-> MissionEntry(report, raw_date, md.out.val),
                      report |-> k]),
          player_squadron_id |->
              SquadronIdIn(md.out.val, player_serial, acc.player_squadron_id)]

\* A pass that keeps a mission only when mission data was found for it.
ReportProcessed_ResolvedOnly(acc, report, k, player_serial, raw_date, md) ==
    IF md.out.kind = "raise"
    THEN [acc EXCEPT !.out = md.out, !.cache = md.cache]
    ELSE IF ~Truthy(md.out.val) THEN [acc EXCEPT !.cache = md.cache]
    ELSE [out |-> acc.out,
          cache |-> md.cache,
          missions_with_key |->
              Append(acc.missions_with_key,
                     [key |-> IF raw_date # "" THEN raw_date ELSE "99999999",
                      entry |-> MissionEntry(report, raw_date, md.out.val),
                      report |-> k]),
          player_squadron_id |->
              IF Truthy(acc.player_squadron_id) THEN acc.player_squadron_id
              ELSE SquadronIdIn(md.out.val, player_serial, acc.player_squadron_id)]

\* One pass of the loop for report k: md is the outcome of the mission
\* lookup.  An item of missions_with_key has the sort key, the entry and
\* (for the record) the report it came from.
ReportProcessed(acc, report, k, player_serial, raw_date, md) ==
    IF md.out.kind = "raise"
    THEN [acc EXCEPT !.out = md.out, !.cache = md.cache]
    ELSE [out |-> acc.out,
          cache |-> md.cache,
          missions_with_key |->
              Append(acc.missions_with_key,
                     [key |-> IF raw_date # "" THEN raw_date ELSE "99999999",
                      entry |-> MissionEntry(report, raw_date, md.out.val),
                      report |-> k]),
          player_squadron_id |->
              IF Truthy(acc.player_squadron_id) THEN acc.player_squadron_id
              ELSE SquadronIdIn(md.out.val, player_serial, acc.player_squadron_id)]

RECURSIVE MissionsLoop(_, _, _, _, _, _)
MissionsLoop(acc, dir, i, combat_reports, k, player_serial) ==
    IF k > Len(combat_reports) \/ acc.out.kind = "raise" THEN acc
    ELSE IF combat_reports[k].t # "dict"
    THEN MissionsLoop(acc, dir, i, combat_reports, k + 1, player_serial)
    ELSE MissionsLoop(
             ReportProcessed(acc, combat_reports[k], k, player_serial,
                             PyStr(DictGet(combat_reports[k], "date", JStr(""))),
                             MissionDetails(GetMissionDataOfReport(
                                 acc.cache, dir, i, combat_reports[k]))),
             dir, i, combat_reports, k + 1, player_serial)

\* missions_with_key.sort(...) and the returned tuple
MissionsSorted(acc) ==
    IF acc.out.kind = "raise" THEN acc
    ELSE [acc EXCEPT !.missions_with_key = SortedByKey(acc.missions_with_key)]

\* process_missions_data
ProcessMissionsData(c, dir, i, combat_reports, player_serial) ==
    MissionsSorted(MissionsLoop([out |-> Ret(None), cache |-> c,
                                 missions_with_key |-> <<>>,
                                 player_squadron_id |-> None],
                                dir, i, combat_reports, 1, player_serial))

(***************************************************************************)
(* SpecMissions: process_missions_data over lists of combat reports        *)
(***************************************************************************)
MaxReports == 2

\* The elements of combat_reports.  The date field of a report: valid
\* dates, an empty string, a year alone, null, a number; a report may have
\* no date field at all; an element may be no report at all.
CombatReports ==
    {Report(d) : d \in {JStr("19180101"), JStr("19171231"), JStr("19171230"), JStr(""),
                        JStr("1917"), None, JInt(19180101)}}
    \cup {JDict(<<KV("reportPilotName", JStr("Lt. Hans Schmidt")),
                  KV("haReport", JStr("Hans Schmidt\nThe mission was flown."))>>),
          JStr("not a report")}


\* MissionData of the campaign: the mission of 1 January 1918, a mission
\* of 31 December 1917 whose file is written in Latin-1, and the mission of
\* 30 December 1917, flown with another squadron.
MissionsDirectory ==
    Directory(TRUE,
              <<Entry("Jasta 11 1918-01-01.MissionData.json", 2,
                      Utf8File("mission 1918-01-01")),
                Entry("Jasta 11 1917-12-31.MissionData.json", 1,
                      Latin1File("mission 1918-01-01")),
                Entry("Jasta 4 1917-12-30.MissionData.json", 1,
                      Utf8File("mission 1917-12-30"))>>)

MissionsInit ==
    /\ disk = MissionsDirectory
    /\ cache = <<>>
    /\ heap = <<>>
    /\ call \in [op : {"reports"},
                 combat_reports : UNION {[1..n -> CombatReports] :
                                         n \in 0..MaxReports}]

ProcessMissionsDataDone(r) ==
    /\ cache' = r.cache
    /\ call' = [op |-> "process_missions_data",
                combat_reports |-> call.combat_reports,
                out |-> IF r.out.kind = "raise" THEN r.out
                        ELSE Ret([missions |->
                                      [k \in 1..Len(r.missions_with_key) |->
                                          r.missions_with_key[k].entry],
                                  player_squadron_id |-> r.player_squadron_id]),
                order |-> [k \in 1..Len(r.missions_with_key) |->
                              r.missions_with_key[k].report]]
    /\ UNCHANGED <<disk, heap>>

ProcessMissions(i) ==
    /\ call.op = "reports"
    /\ ProcessMissionsDataDone(
           ProcessMissionsData(cache, disk, i, call.combat_reports,
                               ToString(PlayerSerial)))


SpecMissions == MissionsInit /\ [][ProcessMissions("sync")]_vars

\* The raw date of a report, and whether it is an 8-digit calendar date.
RawDate(report) == PyStr(DictGet(report, "date", JStr("")))
HasValidDate(report) ==
    IsValidDateString(RawDate(report)) /\ Strptime(RawDate(report)).kind = "return"

\* C5: the missions come in ascending order of their reports' raw dates,
\* and no report whose date is missing, empty or not an 8-digit calendar
\* date comes before a report with a valid date.
C5_MissionsSortedInvalidLast ==
    call.op = "process_missions_data"
    => /\ call.out.kind = "return"
       /\ \A a, b \in 1..Len(call.order) :
            a < b =>
              LET ra == call.combat_reports[call.order[a]]
                  rb == call.combat_reports[call.order[b]]
              IN  /\ HasValidDate(rb) => HasValidDate(ra)
                  /\ (HasValidDate(ra) /\ HasValidDate(rb))
                     => ~StrLess(RawDate(rb), RawDate(ra))

(***************************************************************************)
(* IL2DataProcessor.process_campaign and the parser calls it makes         *)
(***************************************************************************)
\* get_campaign_info and get_squadron_personnel: get_json_data(path), then
\* `data or {}`.
DataOrEmptyDict(r) ==
    IF r.out.kind = "raise" THEN [out |-> r.out, cache |-> r.cache]
    ELSE [out |-> Ret(Or(Data(r.out.val), JDict(<<>>))), cache |-> r.cache]

GetCampaignInfo(c, fs, i) ==
    DataOrEmptyDict(GetJsonDataResult(c, fs.campaign, i, "/camp/Campaign.json"))

GetSquadronPersonnel(c, fs, i, squadron_id) ==
    DataOrEmptyDict(GetJsonDataResult(
        c,
        IF PyStr(squadron_id) = ToString(PlayerSquadron) THEN fs.personnel
        ELSE MissingFile,
        i, "/camp/Personnel/" \o PyStr(squadron_id) \o ".json"))

\* get_campaign_aces: the three shapes
AcesOf(data) ==
    IF ~Truthy(data) THEN <<>>
    ELSE IF data.t = "list" THEN data.items
    ELSE IF data.t # "dict" THEN <<>>
    ELSE IF HasKey(data, "aces") /\ DictGet(data, "aces", None).t = "list"
    THEN DictGet(data, "aces", None).items
    ELSE IF /\ HasKey(data, "acesInCampaign")
            /\ DictGet(data, "acesInCampaign", None).t = "dict"
    THEN Values(DictGet(data, "acesInCampaign", None))
    ELSE <<>>

AcesLoaded(r) ==
    IF r.out.kind = "raise" THEN [out |-> r.out, cache |-> r.cache]
    ELSE [out |-> Ret(AcesOf(Data(r.out.val))), cache |-> r.cache]

GetCampaignAces(c, fs, i) ==
    AcesLoaded(GetJsonDataResult(c, fs.aces, i, "/camp/CampaignAces.json"))

\* mtime = report_file.stat().st_mtime, and 0 when stat() raises OSError
StatOrZero(files) ==
    [k \in 1..Len(files) |->
        IF files[k].file.exists THEN files[k] ELSE [files[k] EXCEPT !.mtime = 0]]

\* The files of reports_path.glob('*.json') with their timestamps, after
\* files.sort(key=lambda x: x[0], reverse=True)
ReportFilesSorted(dir) == SortedByMtime(StatOrZero(Glob(dir.entries, ".json")))

\* The loading loop of get_combat_reports over the sorted files.
RECURSIVE ReportsOfListing(_, _, _)
ReportsOfListingAfter(first, i, rest) ==
    IF first.out.kind = "raise" THEN first
    ELSE JoinLoads(first, ReportsOfListing(first.cache, i, rest))

ReportsOfListing(c, i, files) ==
    IF files = <<>> THEN [out |-> Ret(<<>>), cache |-> c, reads |-> 0]
    ELSE ReportsOfListingAfter(
             ReportLoaded(GetJsonDataResult(c, Head(files).file, i,
                                            "/camp/CombatReports/7/" \o Head(files).name)),
             i, Tail(files))

\* get_combat_reports(campaign_name, player_serial)
GetCombatReportsIn(c, dir, i) ==
    IF ~dir.isdir THEN [out |-> Ret(<<>>), cache |-> c, reads |-> 0]
    ELSE ReportsOfListing(c, i, ReportFilesSorted(dir))

\* get_combat_reports(campaign_name, player_serial): the directory of the
\* player's serial holds the report files; any other serial has none.
ReportsLoaded(r) ==
    IF r.out.kind = "raise" THEN [out |-> r.out, cache |-> r.cache]
    ELSE [out |-> Ret([k \in 1..Len(r.out.val) |-> Data(r.out.val[k])]),
          cache |-> r.cache]

GetCombatReportsOf(c, fs, i, player_serial) ==
    IF player_serial # ToString(PlayerSerial) THEN [out |-> Ret(<<>>), cache |-> c]
    ELSE ReportsLoaded(GetCombatReportsIn(c, fs.reports, i))

\* int(x) if str(x).isdigit() else 0
DigitsOrZero(x) == IF IsDigit(PyStr(x)) THEN ToInt(PyStr(x)) ELSE 0

\* The victories count of a squadron member
MemberVictories(victories) ==
    IF victories.t = "list" THEN Len(victories.items)
    ELSE IF victories.t = "dict" THEN Len(victories.pairs)
    ELSE DigitsOrZero(victories)

\* The missions flown by a squadron member (a bool is an int: int(True)
\* is 1)
MissionsFlown(m_flown) ==
    IF m_flown.t = "int" THEN m_flown.n
    ELSE IF m_flown.t = "bool" THEN (IF m_flown.b THEN 1 ELSE 0)
    ELSE DigitsOrZero(m_flown)

\* The victories count of an ace
AceVictories(v) ==
    IF v.t = "list" THEN Len(v.items)
    ELSE IF v.t \in {"int", "str"} THEN DigitsOrZero(v)
    ELSE 0

\* The key of {0: ..., ..., 5: ...} a code is equal to: True == 1 and
\* 2.0 == 2 find the entries of 1 and 2; -1 stands for no key.
StatusKey(code) ==
    CASE code.t = "int" -> code.n
      [] code.t = "bool" -> IF code.b THEN 1 ELSE 0
      [] code.t = "float" -> IF code.half THEN -1 ELSE code.n
      [] OTHER -> -1

\* get_pilot_status: a dict lookup of the code (TypeError for a code that
\* cannot be hashed)
GetPilotStatus(code) ==
    IF code.t \in {"list", "dict"} THEN Raise("TypeError")
    ELSE IF StatusKey(code) \in {0, 1} THEN Ret("Ativo")
    ELSE IF StatusKey(code) = 2 THEN Ret("Morto em Combate (KIA)")
    ELSE IF StatusKey(code) = 3 THEN Ret("Gravemente Ferido (WIA)")
    ELSE IF StatusKey(code) = 4 THEN Ret("Capturado (POW)")
    ELSE IF StatusKey(code) = 5 THEN Ret("Desaparecido em Combate (MIA)")
    ELSE Ret("Desconhecido")

\* One member of the roster: p.get raises AttributeError unless p is a
\* dict, and the try blocks catch TypeError and ValueError only.
Member(p) ==
    IF p.t # "dict" THEN Raise("AttributeError")
    ELSE IF GetPilotStatus(DictGet(p, "pilotActiveStatus", JInt(-1))).kind = "raise"
    THEN GetPilotStatus(DictGet(p, "pilotActiveStatus", JInt(-1)))
    ELSE Ret([name |-> DictGet(p, "name", JStr("NA")),
              rank |-> DictGet(p, "rank", JStr("NA")),
              victories |-> MemberVictories(DictGet(p, "victories", JList(<<>>))),
              missions_flown |-> MissionsFlown(DictGet(p, "missionFlown", JInt(0))),
              status |-> GetPilotStatus(DictGet(p, "pilotActiveStatus", JInt(-1))).val])

\* One ace
Ace(ace) ==
    IF ace.t # "dict" THEN Raise("AttributeError")
    ELSE Ret([name |-> DictGet(ace, "name", JStr("NA")),
              rank |-> DictGet(ace, "rank", JStr("NA")),
              country |-> DictGet(ace, "country", JStr("")),
              victories |-> AceVictories(DictGet(ace, "victories", JList(<<>>))),
              missions_flown |-> DictGet(ace, "missionFlown", JInt(0))])

\* for x in items: result.append(...), left by the first exception; what
\* is "member" for the roster and "ace" for the aces.
RECURSIVE Collect(_, _, _)
CollectAfter(one, items, what, done) ==
    IF one.kind = "raise" THEN one ELSE Collect(items, what, Append(done, one.val))

Collect(items, what, done) ==
    IF items = <<>> THEN Ret(done)
    ELSE CollectAfter(IF what = "member" THEN Member(Head(items)) ELSE Ace(Head(items)),
                      Tail(items), what, done)

\* A roster key that leaves the victories out.
KeyLess_MissionsOnly(what, a, b) ==
    IF what = "member"
    THEN a.missions_flown < b.missions_flown
    ELSE a.victories < b.victories

\* The sort keys: (missions_flown, victories) for the roster, victories
\* for the aces.
KeyLess(what, a, b) ==
    IF what = "member"
    THEN \/ a.missions_flown < b.missions_flown
         \/ a.missions_flown = b.missions_flown /\ a.victories < b.victories
    ELSE a.victories < b.victories

\* A descending sort that reverses the items of equal keys (an ascending
\* sort followed by reverse()).
RECURSIVE SortedDescending_Reversed(_, _)
SortedDescending_Reversed(items, what) ==
    IF items = <<>> THEN <<>>
    ELSE LET k == CHOOSE k \in 1..Len(items) :
                      /\ \A j \in 1..Len(items) : ~KeyLess(what, items[k], items[j])
                      /\ \A j \in (k + 1)..Len(items) : KeyLess(what, items[j], items[k])
         IN  <<items[k]>> \o SortedDescending_Reversed(Without(items, k), what)

\* list.sort(key=..., reverse=True): stable, descending
RECURSIVE SortedDescending(_, _)
SortedDescending(items, what) ==
    IF items = <<>> THEN <<>>
    ELSE LET k == CHOOSE k \in 1..Len(items) :
                      /\ \A j \in 1..Len(items) : ~KeyLess(what, items[k], items[j])
                      /\ \A j \in 1..(k - 1) : KeyLess(what, items[j], items[k])
         IN  <<items[k]>> \o SortedDescending(Without(items, k), what)

SortedIfReturned(out, what) ==
    IF out.kind = "raise" THEN out ELSE Ret(SortedDescending(out.val, what))

\* process_squadron_data
ProcessSquadronData(squadron_personnel) ==
    IF ~Truthy(squadron_personnel) THEN Ret(<<>>)
    ELSE IF squadron_personnel.t # "dict" THEN Raise("AttributeError")
    ELSE IF Or(DictGet(squadron_personnel, "squadronMemberCollection", JDict(<<>>)),
               JDict(<<>>)).t # "dict"
    THEN Raise("AttributeError")
    ELSE SortedIfReturned(
             Collect(Values(Or(DictGet(squadron_personnel, "squadronMemberCollection",
                                       JDict(<<>>)),
                               JDict(<<>>))),
                     "member", <<>>),
             "member")

\* process_aces_data
ProcessAcesData(aces_raw) ==
    SortedIfReturned(Collect(aces_raw, "ace", <<>>), "ace")

\* process_pilot_data, for the dict campaign_info process_campaign has
PilotData(campaign_info, combat_reports) ==
    [name |-> Or(Or(Or(DictGet(campaign_info, "referencePlayerName", None),
                       DictGet(campaign_info, "playerName", None)),
                    DictGet(campaign_info, "name", None)),
                 JStr("NA")),
     squadron |->
         Or(Or(Or(DictGet(campaign_info, "referencePlayerSquadronName", None),
                  DictGet(campaign_info, "playerSquadron", None)),
               IF \E k \in 1..Len(combat_reports) :
                     /\ combat_reports[k].t = "dict"
                     /\ Truthy(DictGet(combat_reports[k], "squadron", None))
               THEN DictGet(combat_reports[
                                CHOOSE k \in 1..Len(combat_reports) :
                                    /\ combat_reports[k].t = "dict"
                                    /\ Truthy(DictGet(combat_reports[k], "squadron", None))
                                    /\ \A j \in 1..(k - 1) :
                                          ~(/\ combat_reports[j].t = "dict"
                                            /\ Truthy(DictGet(combat_reports[j],
                                                              "squadron", None)))],
                            "squadron", None)
               ELSE None),
            JStr("NA")),
     total_missions |->
         Cardinality({k \in 1..Len(combat_reports) : combat_reports[k].t = "dict"})]

\* process_campaign, statement by statement; an exception of any call
\* leaves it.
Failed(r) == [out |-> r.out, cache |-> r.cache]

WithAces(pilot_data, missions, squadron, aces, c) ==
    IF aces.kind = "raise" THEN [out |-> aces, cache |-> c]
    ELSE [out |-> Ret([t |-> "dict", pilot |-> pilot_data,
                       missions |-> [k \in 1..Len(missions.missions_with_key) |->
                                        missions.missions_with_key[k].entry],
                       squadron |-> squadron.val, aces |-> aces.val]),
          cache |-> c]

LoadAces(pilot_data, missions, squadron, aces_raw) ==
    IF aces_raw.out.kind = "raise" THEN Failed(aces_raw)
    ELSE WithAces(pilot_data, missions, squadron,
                  ProcessAcesData(aces_raw.out.val), aces_raw.cache)

WithSquadron(fs, i, pilot_data, missions, squadron, c) ==
    IF squadron.kind = "raise" THEN [out |-> squadron, cache |-> c]
    ELSE LoadAces(pilot_data, missions, squadron, GetCampaignAces(c, fs, i))

WithPersonnel(fs, i, pilot_data, missions, squadron_personnel) ==
    IF squadron_personnel.out.kind = "raise" THEN Failed(squadron_personnel)
    ELSE WithSquadron(fs, i, pilot_data, missions,
                      ProcessSquadronData(squadron_personnel.out.val),
                      squadron_personnel.cache)

WithMissions(fs, i, campaign_info, combat_reports, missions) ==
    IF missions.out.kind = "raise" THEN Failed(missions)
    ELSE IF Truthy(missions.player_squadron_id)
    THEN WithPersonnel(fs, i, PilotData(campaign_info, combat_reports), missions,
                       GetSquadronPersonnel(missions.cache, fs, i,
                                            missions.player_squadron_id))
    ELSE WithSquadron(fs, i, PilotData(campaign_info, combat_reports), missions,
                      Ret(<<>>), missions.cache)

WithReports(fs, i, campaign_info, player_serial, combat_reports) ==
    IF combat_reports.out.kind = "raise" THEN Failed(combat_reports)
    ELSE WithMissions(fs, i, campaign_info, combat_reports.out.val,
                      ProcessMissionsData(combat_reports.cache, fs.missions, i,
                                          combat_reports.out.val, player_serial))

WithSerial(fs, i, campaign_info, player_serial, c) ==
    WithReports(fs, i, campaign_info, player_serial,
                GetCombatReportsOf(c, fs, i, player_serial))

WithCampaignInfo(fs, i, campaign_info) ==
    IF campaign_info.out.kind = "raise" THEN Failed(campaign_info)
    ELSE IF ~Truthy(campaign_info.out.val)
    THEN [out |-> Ret(JDict(<<>>)), cache |-> campaign_info.cache]
    ELSE IF campaign_info.out.val.t # "dict"
    THEN [out |-> Raise("AttributeError"), cache |-> campaign_info.cache]
    ELSE WithSerial(fs, i, campaign_info.out.val,
                    PyStr(DictGet(campaign_info.out.val,
                                  "referencePlayerSerialNumber", JStr(""))),
                    campaign_info.cache)

ProcessCampaignResult(c, fs, i) == WithCampaignInfo(fs, i, GetCampaignInfo(c, fs, i))

(***************************************************************************)
(* SpecCampaign: process_campaign over the files of a campaign             *)
(***************************************************************************)
\* The campaign directory as it is found (Campaign.json, the personnel file
\* of the squadron, CampaignAces.json, the player's combat reports,
\* MissionData); the cache is empty.
CampaignInit ==
    /\ disk \in [campaign : {MissingFile, MalformedFile, Latin1File("campaign"),
                             Utf8File("campaign"), Utf8File("campaign array"),
                             Utf8File("{}")},
                 personnel : {MissingFile, MalformedFile,
                              Latin1File("personnel"), Utf8File("personnel"),
                              Utf8File("personnel array"),
                              Utf8File("personnel collection array"),
                              Utf8File("personnel member string")},
                 aces : {MissingFile, MalformedFile, Latin1File("aces array"),
                         Utf8File("aces array"), Utf8File("aces key"),
                         Utf8File("aces in campaign"), Utf8File("aces unknown"),
                         Utf8File("aces entry string")},
                 reports : {Directory(FALSE, <<>>),
                            Directory(TRUE, <<Entry("1.json", 1, Utf8File("report 19180101"))>>),
                            Directory(TRUE, <<Entry("1.json", 2, Utf8File("report 19180101")),
                                              Entry("2.json", 3, Utf8File("report 19171231")),
                                              Entry("3.json", 1, Utf8File(ArrayDoc)),
                                              Entry("4.json", 1, MissingFile)>>),
                            Directory(TRUE, <<Entry("1.json", 1, Utf8File("report 19171230")),
                                              Entry("2.json", 2, Utf8File("report 19171231")),
                                              Entry("3.json", 3, Utf8File("report 19180101"))>>)},
                 missions : {MissionsDirectory}]
    /\ cache = <<>>
    /\ heap = <<>>
    /\ call = [op |-> "sync"]

ProcessCampaignDone(r) ==
    /\ cache' = r.cache
    /\ call' = [op |-> "process_campaign", out |-> r.out]
    /\ UNCHANGED <<disk, heap>>

ProcessCampaign(i) ==
    /\ call.op = "sync"
    /\ ProcessCampaignDone(ProcessCampaignResult(cache, disk, i))


SpecCampaign == CampaignInit /\ [][ProcessCampaign("sync")]_vars

\* The subordinate files are as the claim lists them: each is absent,
\* malformed, of an unexpected JSON shape or well formed, and none is in an
\* encoding other than UTF-8.
SubordinateFilesAreUtf8 ==
    /\ disk.campaign.charset = "utf-8"
    /\ disk.personnel.charset = "utf-8"
    /\ disk.aces.charset = "utf-8"

\* C4: process_campaign lets no exception escape and returns a dict,
\* whether a subordinate file is absent, malformed or of an unexpected JSON
\* shape.
C4_ProcessCampaignNeverRaises ==
    (call.op = "process_campaign" /\ SubordinateFilesAreUtf8)
    => (call.out.kind = "return" /\ call.out.val.t = "dict")

(***************************************************************************)
(* PersonnelResolutionService.resolve (personnel_resolution_service.py)    *)
(***************************************************************************)
\* s.upper()
RECURSIVE Upper(_)
Upper(s) ==
    IF s = "" THEN ""
    ELSE (IF IndexIn("abcdefghijklmnopqrstuvwxyz", CharAt(s, 1)) # 0
          THEN CharAt("ABCDEFGHIJKLMNOPQRSTUVWXYZ",
                      IndexIn("abcdefghijklmnopqrstuvwxyz", CharAt(s, 1)))
          ELSE CharAt(s, 1))
         \o Upper(SubSeq(s, 2, Len(s)))

\* s.replace(" ", "_")
RECURSIVE ReplaceSpaces(_)
ReplaceSpaces(s) ==
    IF s = "" THEN ""
    ELSE (IF CharAt(s, 1) = " " THEN "_" ELSE CharAt(s, 1))
         \o ReplaceSpaces(SubSeq(s, 2, Len(s)))

\* str(d.get(key, "") or "").strip()
StrField(d, key) == Strip(PyStr(Or(DictGet(d, key, JStr("")), JStr(""))))

\* _map_country_to_folder_and_label(country): c is country stripped and
\* upper-cased.
CountryOf(c) ==
    CASE c \in {"GERMANY", "GER", "DE", "DEU", "ALEMANHA", "ALLEMAGNE",
                "DEUTSCHLAND"} -> <<"GERMANY", "Germany">>
      [] c \in {"FRANCE", "FR", "FRA"} -> <<"FRANCE", "France">>
      [] c \in {"BRITAIN", "UK", "GB", "GBR", "UNITED KINGDOM", "BRIT"} ->
            <<"BRITAIN", "Britain">>
      [] c \in {"BELGIAN", "BELGIUM", "BE", "BEL"} -> <<"BELGIAN", "Belgian">>
      [] c \in {"USA", "US", "UNITED STATES", "UNITED STATES OF AMERICA"} ->
            <<"USA", "USA">>
      [] OTHER -> <<"GERMANY", "Germany">>

MapCountryToFolderAndLabel(country) == CountryOf(Upper(Strip(country)))

\* What one medal adds to earned_ids: img and medal_name are the stripped
\* medalImage and medalName.
MedalIds(img, medal_name) ==
    IF img # ""
    THEN {IF EndsWith(Lower(img), ".png") THEN SubSeq(img, 1, Len(img) - 4)
          ELSE img}
    ELSE IF medal_name # "" THEN {ReplaceSpaces(Lower(medal_name))}
    ELSE {}

\* for medal in medals: medal.get of a medal that is no dict raises
\* AttributeError, which leaves the loop with the ids added so far.
RECURSIVE EarnedIds(_, _, _)
EarnedIds(medals, k, earned_ids) ==
    IF k > Len(medals) THEN [earned_ids |-> earned_ids, logged |-> ""]
    ELSE IF medals[k].t # "dict"
    THEN [earned_ids |-> earned_ids, logged |-> "AttributeError"]
    ELSE EarnedIds(medals, k + 1,
                   earned_ids \cup MedalIds(StrField(medals[k], "medalImage"),
                                            StrField(medals[k], "medalName")))

\* The loop of _resolve_member over coll.values(): the first member whose
\* name, stripped and lower-cased, is the pilot's; a member that is no dict
\* raises AttributeError inside the try and is passed over.  The medals of
\* the documents are lists.
RECURSIVE FirstMember(_, _, _)
FirstMember(members, k, pilot_name_norm) ==
    IF k > Len(members) THEN None
    ELSE IF members[k].t # "dict"
    THEN FirstMember(members, k + 1, pilot_name_norm)
    ELSE IF Lower(StrField(members[k], "name")) # pilot_name_norm
    THEN FirstMember(members, k + 1, pilot_name_norm)
    ELSE [t |-> "tuple",
          country |-> Upper(StrField(members[k], "country")),
          name |-> Lower(StrField(members[k], "name")),
          medals |-> Or(DictGet(members[k], "medals", JList(<<>>)),
                        JList(<<>>)).items]

\* _resolve_member(_path, payload); coll.values() is outside the try, and a
\* collection that is no dict has no values().
ResolveMember(payload, pilot_name_norm) ==
    IF payload.t # "dict" THEN Ret(None)
    ELSE IF Or(DictGet(payload, "squadronMemberCollection", JDict(<<>>)),
               JDict(<<>>)).t # "dict"
    THEN Raise("AttributeError")
    ELSE Ret(FirstMember(
                 Values(Or(DictGet(payload, "squadronMemberCollection",
                                   JDict(<<>>)), JDict(<<>>))),
                 1, pilot_name_norm))

\* batch_repo.resolve_many(loaded_payloads, _resolve_member): an exception
\* of the resolver ends it.
RECURSIVE ResolveMembers(_, _)
MemberResolved(item, rest) ==
    IF item.kind = "raise" THEN item
    ELSE IF rest.kind = "raise" THEN rest
    ELSE Ret((IF item.val = None THEN <<>> ELSE <<item.val>>) \o rest.val)

ResolveMembers(loaded, pilot_name_norm) ==
    IF loaded = <<>> THEN Ret(<<>>)
    ELSE IF Head(loaded).payload = None
    THEN ResolveMembers(Tail(loaded), pilot_name_norm)
    ELSE MemberResolved(ResolveMember(Data(Head(loaded).payload), pilot_name_norm),
                        ResolveMembers(Tail(loaded), pilot_name_norm))

\* sorted(personnel_dir.glob("*.json")): paths of one directory compare by
\* their names.
PersonnelFiles(entries) ==
    SortedByKey([k \in 1..Len(Glob(entries, ".json")) |->
                    [key |-> Glob(entries, ".json")[k].name,
                     file |-> Glob(entries, ".json")[k].file]])

\* get_json_many of a parser that has it, as the specification describes
\* load_many of the loader: get_json_data of each path, in order.
RECURSIVE PersonnelLoaded(_, _, _)
PersonnelLoadedAfter(first, i, files) ==
    IF first.out.kind = "raise" THEN first
    ELSE JoinLoads(first, PersonnelLoaded(first.cache, i, files))

PersonnelLoaded(c, i, files) ==
    IF files = <<>> THEN [out |-> Ret(<<>>), cache |-> c, reads |-> 0]
    ELSE PersonnelLoadedAfter(
             PathLoaded(Head(files).key,
                        GetJsonDataResult(c, Head(files).file, i,
                                          "/camp/Personnel/" \o Head(files).key)),
             i, Tail(files))

\* batch_repo.load_many(personnel_files): class IL2DataParser has no
\* get_json_many; a parser class that adds it loads the files.
LoadPersonnel(parser, c, i, files) ==
    IF parser = "IL2DataParser" /\ GetAttr("get_json_many").kind = "raise"
    THEN [out |-> GetAttr("get_json_many"), cache |-> c, reads |-> 0]
    ELSE PersonnelLoaded(c, i, files)

\* PersonnelResolutionResult, with what the call did besides: the cache it
\* left, the file reads it made and the exception it logged.
ResolutionResult(code_label, earned, c, reads) ==
    [country_code |-> code_label[1], display_name |-> code_label[2],
     earned_medal_ids |-> earned.earned_ids, cache |-> c, reads |-> reads,
     logged |-> earned.logged]

\* default, as returned at once or after an exception
DefaultResult(c, reads, logged) ==
    ResolutionResult(<<"GERMANY", "Germany">>,
                     [earned_ids |-> {}, logged |-> logged], c, reads)

\* if matches: the first match gives the country and the medals.
WithMatches(matches, c, reads) ==
    IF matches.kind = "raise" THEN DefaultResult(c, reads, matches.exc)
    ELSE IF matches.val = <<>> THEN DefaultResult(c, reads, "")
    ELSE ResolutionResult(MapCountryToFolderAndLabel(matches.val[1].country),
                          EarnedIds(matches.val[1].medals, 1, {}), c, reads)

\* The try block after load_many; except Exception logs and the defaults
\* are returned.
WithPayloads(got, pilot_name_norm) ==
    IF got.out.kind = "raise"
    THEN DefaultResult(got.cache, got.reads, got.out.exc)
    ELSE WithMatches(ResolveMembers(got.out.val, pilot_name_norm),
                     got.cache, got.reads)

\* A resolve that goes on to the Personnel directory with a blank pilot name.
ResolveResult_BlankPilot(c, dir, i, parser, campaign, pilot_name) ==
    IF Strip(campaign) = "" THEN DefaultResult(c, 0, "")
    ELSE IF ~(dir.isdir /\ Strip(campaign) = "Camp1")
    THEN DefaultResult(c, 0, "")
    ELSE WithPayloads(LoadPersonnel(parser, c, i, PersonnelFiles(dir.entries)),
                      Lower(Strip(pilot_name)))

\* resolve(campaign, pilot_name); the campaign on disk is Camp1, and dir is
\* its Personnel directory.
ResolveResult(c, dir, i, parser, campaign, pilot_name) ==
    IF Lower(Strip(pilot_name)) = "" \/ Strip(campaign) = ""
    THEN DefaultResult(c, 0, "")
    ELSE IF ~(dir.isdir /\ Strip(campaign) = "Camp1")
    THEN DefaultResult(c, 0, "")
    ELSE WithPayloads(LoadPersonnel(parser, c, i, PersonnelFiles(dir.entries)),
                      Lower(Strip(pilot_name)))

(***************************************************************************)
(* SpecPersonnel: resolve over Personnel directories                       *)
(***************************************************************************)
MaxPersonnel == 2

\* The Personnel directory of Camp1 as the operating system lists it: up to
\* MaxPersonnel files with distinct names.  A personnel file holds one of
\* the member documents, a JSON array, a document written in Latin-1, or is
\* a dangling link; notes.txt is no personnel file.
PersonnelListings ==
    UNION {{l \in [1..n ->
                    {Entry("notes.txt", 1, Utf8File("member fr"))}
                    \cup {Entry(name, 1, f) :
                            name \in {"101.json", "20.json"},
                            f \in {Utf8File(d) :
                                     d \in {"member fr", "member ger",
                                            "member jpg", "member bad medal",
                                            "member collection array",
                                            "personnel array"}}
                                  \cup {Latin1File("member fr"), MissingFile}}] :
              \A j, k \in 1..n : j # k => l[j].name # l[k].name}
           : n \in 0..MaxPersonnel}

\* The service is built on a parser provider: the parser is an IL2DataParser
\* or an instance of a class that adds get_json_many to it.
PersonnelInit ==
    /\ disk \in {Directory(FALSE, <<>>)}
                \cup {Directory(TRUE, l) : l \in PersonnelListings}
    /\ cache = <<>>
    /\ heap = <<>>
    /\ call \in [op : {"pilot"}, parser : {"IL2DataParser", "BatchParser"},
                 campaign : {"Camp1", " Camp1 ", " "},
                 pilot_name : {"Ace Pilot", " ace PILOT ", " "}]

ResolvePilotDone(r) ==
    /\ cache' = r.cache
    /\ call' = [op |-> "resolve", parser |-> call.parser,
                campaign |-> call.campaign, pilot_name |-> call.pilot_name,
                country_code |-> r.country_code,
                display_name |-> r.display_name,
                earned_medal_ids |-> r.earned_medal_ids,
                reads |-> r.reads, logged |-> r.logged]
    /\ UNCHANGED <<disk, heap>>

ResolvePilot(i) ==
    /\ call.op = "pilot"
    /\ ResolvePilotDone(ResolveResult(cache, disk, i, call.parser,
                                      call.campaign, call.pilot_name))

SpecPersonnel == PersonnelInit /\ [][ResolvePilot("container")]_vars

\* The member of a personnel file that matches the pilot of the call: the
\* first such member of the file, None when the file holds no JSON object,
\* no member collection or no such member.
MatchIn(f) ==
    IF LoadJsonFile(f).out.kind = "raise" THEN None
    ELSE IF ResolveMember(Data(LoadJsonFile(f).out.val),
                          Lower(Strip(call.pilot_name))).kind = "raise"
    THEN None
    ELSE ResolveMember(Data(LoadJsonFile(f).out.val),
                       Lower(Strip(call.pilot_name))).val

\* The matching members of the Personnel directory, files in sorted order.
MatchesOnDisk ==
    SelectSeq([k \in 1..Len(PersonnelFiles(disk.entries)) |->
                  MatchIn(PersonnelFiles(disk.entries)[k].file)],
              LAMBDA m : m # None)

\* A resolve whose inputs are not blank and whose Personnel directory exists.
Scanned ==
    /\ call.op = "resolve"
    /\ Strip(call.pilot_name) # "" /\ Strip(call.campaign) # ""
    /\ disk.isdir

\* C12: with a real IL2DataParser and a member in the Personnel directory
\* whose name matches the pilot, resolve returns the canonical pair of that
\* member's country; the country code is always one of GERMANY, FRANCE,
\* BRITAIN, BELGIAN, USA.
C12_ResolveGivesCountryOfMember ==
    call.op = "resolve"
    => /\ call.country_code \in {"GERMANY", "FRANCE", "BRITAIN", "BELGIAN", "USA"}
       /\ (Scanned /\ call.parser = "IL2DataParser" /\ MatchesOnDisk # <<>>)
          => <<call.country_code, call.display_name>>
             = MapCountryToFolderAndLabel(MatchesOnDisk[1].country)

\* C13: resolve returns (GERMANY, Germany, no medals) when the campaign or
\* the pilot name is blank after trimming or the Personnel directory does
\* not exist, and then it reads no personnel file and leaves the cache as
\* it was.
C13_DefaultsWithoutLoading ==
    (/\ call.op = "resolve"
     /\ \/ Strip(call.pilot_name) = ""
        \/ Strip(call.campaign) = ""
        \/ ~disk.isdir)
    => /\ call.country_code = "GERMANY"
       /\ call.display_name = "Germany"
       /\ call.earned_medal_ids = {}
       /\ call.reads = 0
       /\ cache = <<>>

\* A blank pilot name over a directory with a member file, and a parser that
\* would load it.
C13_Witness ==
    /\ call.op = "resolve"
    /\ Strip(call.pilot_name) = ""
    /\ call.campaign = "Camp1"
    /\ call.parser = "BatchParser"
    /\ disk.isdir
    /\ \E k \in 1..Len(disk.entries) : disk.entries[k].file = Utf8File("member fr")
    /\ call.country_code = "GERMANY"

\* Path(img).stem: the file name of a path without its last extension.
LastIndex(s, ch) ==
    IF \E k \in 1..Len(s) : CharAt(s, k) = ch
    THEN CHOOSE k \in 1..Len(s) :
             CharAt(s, k) = ch /\ \A j \in (k + 1)..Len(s) : CharAt(s, j) # ch
    ELSE 0

Stem(s) ==
    LET name == SubSeq(s, LastIndex(s, "/") + 1, Len(s))
    IN  IF LastIndex(name, ".") > 1
        THEN SubSeq(name, 1, LastIndex(name, ".") - 1)
        ELSE name

\* The ids the medal entries of a member stand for: the stem of the image
\* when there is one, else the name in lower case with underscores for
\* spaces, else nothing.
StemOrSlugIds(medals) ==
    UNION {IF medals[k].t # "dict" THEN {}
           ELSE IF StrField(medals[k], "medalImage") # ""
           THEN {Stem(StrField(medals[k], "medalImage"))}
           ELSE IF StrField(medals[k], "medalName") # ""
           THEN {ReplaceSpaces(Lower(StrField(medals[k], "medalName")))}
           ELSE {}
           : k \in 1..Len(medals)}

\* C14: every medal entry of the matched member contributes one id to
\* earned_medal_ids, the stem of its image file name (the name without its
\* extension) when medalImage is not empty, else its display name in lower
\* case with underscores for spaces; an entry with neither contributes
\* nothing.  (Stated for a parser that loads the personnel files.)
C14_MedalIdsAreStemOrSlug ==
    (Scanned /\ call.parser = "BatchParser" /\ call.logged = ""
     /\ MatchesOnDisk # <<>>)
    => call.earned_medal_ids = StemOrSlugIds(MatchesOnDisk[1].medals)

\* C15: when several personnel files match the pilot, the result of resolve
\* is that of the first matching member of the first matching file, files
\* in sorted order of their names.
C15_FirstMatchingMemberWins ==
    (Scanned /\ Len(MatchesOnDisk) >= 2)
    => /\ <<call.country_code, call.display_name>>
          = MapCountryToFolderAndLabel(MatchesOnDisk[1].country)
       /\ call.earned_medal_ids
          = EarnedIds(MatchesOnDisk[1].medals, 1, {}).earned_ids

(***************************************************************************)
(* SpecRoster: process_squadron_data and process_aces_data over personnel  *)
(* files and ace lists                                                     *)
(***************************************************************************)
MaxMembers == 2

\* The values a count or a status code may have in a file.
FieldValues ==
    {Victories(0), Victories(2), JInt(0), JInt(1), JInt(2), JInt(3), JInt(-2),
     JInt(999), JStr("4"), JStr("many"), JFloat(2, FALSE), JFloat(2, TRUE),
     JBool(TRUE), None, JDict(<<KV("a", JInt(1))>>)}

\* Members and aces: one field varies, the others are plain; an object
\* without fields; an entry that is no object.
PilotValues ==
    {Pilot("A", v, JInt(1), JInt(1)) : v \in FieldValues}
    \cup {Pilot("B", v, JInt(1), JInt(1)) : v \in {Victories(3), JInt(2), JInt(3)}}
    \cup {Pilot("A", Victories(1), v, JInt(1)) : v \in FieldValues}
    \cup {Pilot("A", Victories(1), JInt(1), v) : v \in FieldValues}
    \cup {JDict(<<>>), JStr("A")}

PilotLists == UNION {[1..n -> PilotValues] : n \in 0..MaxMembers}

\* squadron_personnel with the members under the keys "1", "2", ...
PersonnelOf(members) ==
    JDict(<<KV("squadronMemberCollection",
               JDict([k \in 1..Len(members) |-> KV(ToString(k), members[k])]))>>)

\* The argument of the call: what get_squadron_personnel or
\* get_campaign_aces returned.
RosterInit ==
    /\ disk = <<>>
    /\ cache = <<>>
    /\ heap = <<>>
    /\ call \in [op : {"personnel", "aces"}, pilots : PilotLists]

ProcessSquadron ==
    /\ call.op = "personnel"
    /\ call' = [op |-> "process_squadron_data", pilots |-> call.pilots,
                out |-> ProcessSquadronData(PersonnelOf(call.pilots))]
    /\ UNCHANGED <<disk, cache, heap>>

ProcessAces ==
    /\ call.op = "aces"
    /\ call' = [op |-> "process_aces_data", pilots |-> call.pilots,
                out |-> ProcessAcesData(call.pilots)]
    /\ UNCHANGED <<disk, cache, heap>>

RosterNext == ProcessSquadron \/ ProcessAces

SpecRoster == RosterInit /\ [][RosterNext]_vars

\* ---- Claims about the roster and the aces ----

\* The orders in which n input entries can appear in an output of n entries
Arrangements(n) == {f \in [1..n -> 1..n] : \A j, k \in 1..n : f[j] = f[k] => j = k}

AllDicts(pilots) == \A k \in 1..Len(pilots) : pilots[k].t = "dict"

\* The count the documentation gives for a source value of victories: the
\* length of a list, the value of a non-negative int or of a string of
\* digits, 0 for every other value.
DocumentedCount(v) ==
    CASE v.t = "list" -> Len(v.items)
      [] v.t = "int" -> IF v.n >= 0 THEN v.n ELSE 0
      [] v.t = "str" -> IF IsDigit(v.s) THEN ToInt(v.s) ELSE 0
      [] OTHER -> 0

\* The status the documentation gives for a source value of
\* pilotActiveStatus
DocumentedStatus(code) ==
    IF code.t # "int" THEN "Desconhecido"
    ELSE CASE code.n \in {0, 1} -> "Ativo"
           [] code.n = 2 -> "Morto em Combate (KIA)"
           [] code.n = 3 -> "Gravemente Ferido (WIA)"
           [] code.n = 4 -> "Capturado (POW)"
           [] code.n = 5 -> "Desaparecido em Combate (MIA)"
           [] OTHER -> "Desconhecido"

\* C16: for every squadron member and every ace, the victories of its
\* output entry is a non-negative integer: the element count of a list,
\* the value of a non-negative int or of an all-digit string, and 0 for
\* every other source value.
C16_VictoriesNormalized ==
    (/\ call.op \in {"process_squadron_data", "process_aces_data"}
     /\ call.out.kind = "return")
    => /\ Len(call.out.val) = Len(call.pilots)
       /\ \E f \in Arrangements(Len(call.pilots)) :
              \A k \in 1..Len(call.pilots) :
                  call.out.val[k].victories =
                      DocumentedCount(DictGet(call.pilots[f[k]], "victories", JList(<<>>)))

\* n is a missions count the documentation allows for a source value of
\* missionFlown: a non-negative integer, the value of a non-negative int
\* or of a string of digits, 0 for a negative int and for a value that is
\* no number (a collection or a float may give any count).
DocumentedMissions(v, n) ==
    /\ n \in Nat
    /\ v.t = "int" => n = (IF v.n >= 0 THEN v.n ELSE 0)
    /\ v.t = "str" => n = (IF IsDigit(v.s) THEN ToInt(v.s) ELSE 0)
    /\ v.t \in {"bool", "None"} => n = 0

\* C17: for every squadron member, the missions_flown of its output entry
\* is a non-negative integer whatever the source value of missionFlown
\* is, 0 for a negative integer and for a non-numeric value.
C17_MissionsFlownNonNegative ==
    (call.op = "process_squadron_data" /\ call.out.kind = "return")
    => /\ Len(call.out.val) = Len(call.pilots)
       /\ \E f \in Arrangements(Len(call.pilots)) :
              \A k \in 1..Len(call.pilots) :
                  DocumentedMissions(DictGet(call.pilots[f[k]], "missionFlown", JInt(0)),
                                     call.out.val[k].missions_flown)

\* C18: the status of every member is "Ativo" for the codes 0 and 1, the
\* KIA, WIA, POW and MIA texts for 2, 3, 4 and 5, and "Desconhecido" for
\* every other value of pilotActiveStatus, integer or not, and no value of
\* pilotActiveStatus makes the call raise.
C18_StatusMappedNeverRaising ==
    (call.op = "process_squadron_data" /\ AllDicts(call.pilots))
    => /\ call.out.kind = "return"
       /\ \E f \in Arrangements(Len(call.pilots)) :
              \A k \in 1..Len(call.pilots) :
                  call.out.val[k].status =
                      DocumentedStatus(DictGet(call.pilots[f[k]], "pilotActiveStatus",
                                               JInt(-1)))

\* C19: the roster process_squadron_data returns has one entry per member
\* of squadronMemberCollection and is sorted descending by the pair
\* (missions_flown, victories): of two adjacent entries the first has more
\* missions flown, or as many and at least as many victories.
C19_RosterSortedByMissionsThenVictories ==
    (call.op = "process_squadron_data" /\ call.out.kind = "return")
    => /\ Len(call.out.val) = Len(call.pilots)
       /\ \A k \in 1..(Len(call.out.val) - 1) :
              \/ call.out.val[k].missions_flown > call.out.val[k + 1].missions_flown
              \/ /\ call.out.val[k].missions_flown = call.out.val[k + 1].missions_flown
                 /\ call.out.val[k].victories >= call.out.val[k + 1].victories

\* A roster of two members with as many missions flown, listed in the
\* source with the one of fewer victories first.
C19_Witness ==
    /\ call.op = "process_squadron_data"
    /\ call.out.kind = "return"
    /\ Len(call.pilots) = 2
    /\ call.pilots[1] = Pilot("A", Victories(0), JInt(1), JInt(1))
    /\ call.pilots[2] = Pilot("B", JInt(3), JInt(1), JInt(1))
    /\ call.out.val[1].name = JStr("B")
    /\ call.out.val[2].name = JStr("A")

\* C20: the list process_aces_data returns has one entry per input ace
\* and is sorted descending by the victories count, aces of equal count
\* in the order of the input: an ace of one victory listed before an ace
\* of more victories comes after it in the output.
C20_AcesSortedStable ==
    (call.op = "process_aces_data" /\ call.out.kind = "return")
    => /\ Len(call.out.val) = Len(call.pilots)
       /\ \E f \in Arrangements(Len(call.pilots)) :
              /\ \A k \in 1..Len(call.pilots) :
                     /\ call.out.val[k].name = DictGet(call.pilots[f[k]], "name", JStr("NA"))
                     /\ call.out.val[k].victories =
                            AceVictories(DictGet(call.pilots[f[k]], "victories", JList(<<>>)))
              /\ \A j, k \in 1..Len(call.pilots) :
                     j < k => \/ call.out.val[j].victories > call.out.val[k].victories
                              \/ /\ call.out.val[j].victories = call.out.val[k].victories
                                 /\ f[j] < f[k]

\* The aces of the documentation's example, the one of fewer victories
\* first in the input and last in the output.
C20_Witness ==
    /\ call.op = "process_aces_data"
    /\ call.out.kind = "return"
    /\ Len(call.pilots) = 2
    /\ call.pilots[1] = Pilot("A", Victories(1), JInt(1), JInt(1))
    /\ call.pilots[2] = Pilot("B", Victories(3), JInt(1), JInt(1))
    /\ call.out.val[1].name = JStr("B")
    /\ call.out.val[1].victories = 3
    /\ call.out.val[2].victories = 1

(***************************************************************************)
(* SpecAces: IL2DataParser.get_campaign_aces over CampaignAces.json        *)
(***************************************************************************)
\* CampaignAces.json as it is found: absent, locked, malformed, or holding
\* a document in UTF-8 or in Latin-1.  The cache is empty.
AcesInit ==
    /\ disk \in {MissingFile, File(TRUE, FALSE, "utf-8", FALSE, ""), MalformedFile}
                \cup {File(TRUE, TRUE, cs, TRUE, d) :
                        cs \in {"utf-8", "latin-1"},
                        d \in {ArrayDoc, "{}", "null", "number", "string", "aces array",
                               "aces key", "aces in campaign", "aces unknown",
                               "aces key string", "aces in campaign array",
                               "aces entry string"}}
    /\ cache = <<>>
    /\ heap = <<>>
    /\ call \in [op : {"aces"}, self : Parsers]

GetCampaignAcesCall ==
    /\ call.op = "aces"
    /\ cache' = GetCampaignAces(cache, [aces |-> disk], call.self).cache
    /\ call' = [op |-> "get_campaign_aces", self |-> call.self,
                out |-> GetCampaignAces(cache, [aces |-> disk], call.self).out]
    /\ UNCHANGED <<disk, heap>>

SpecAces == AcesInit /\ [][GetCampaignAcesCall]_vars

\* The list the documentation gives for CampaignAces.json: the array of a
\* bare array, the array under "aces", the values of the map under
\* "acesInCampaign", and the empty list for every other file.
DocumentedAces(f) ==
    IF ~(f.exists /\ f.readable /\ f.json) THEN <<>>
    ELSE IF Json(f.doc).t = "list" THEN Json(f.doc).items
    ELSE IF Json(f.doc).t # "dict" THEN <<>>
    ELSE IF DictGet(Json(f.doc), "aces", None).t = "list"
    THEN DictGet(Json(f.doc), "aces", None).items
    ELSE IF DictGet(Json(f.doc), "acesInCampaign", None).t = "dict"
    THEN Values(DictGet(Json(f.doc), "acesInCampaign", None))
    ELSE <<>>

\* C21: get_campaign_aces never raises and returns the array of a bare
\* array, the value of "aces" when that is an array, the values of
\* "acesInCampaign" when that is a map, and the empty list for every other
\* document.
C21_AcesOfEveryShape ==
    call.op = "get_campaign_aces"
    => (call.out.kind = "return" /\ call.out.val = DocumentedAces(disk))

(***************************************************************************)
(* SpecReports: IL2DataParser.get_combat_reports over the directory of the *)
(* player's reports                                                        *)
(***************************************************************************)
MaxReportFiles == 2

\* The directory as it is found: absent, or listing up to MaxReportFiles
\* files.  A report file holds a JSON object (named after the file) in
\* UTF-8 or in Latin-1, or a JSON array, or it is a link to nowhere.
ReportsInit ==
    /\ disk \in {Directory(FALSE, <<>>)}
          \cup {Directory(TRUE, l) :
                  l \in UNION {{l \in [1..n -> UNION {{Entry(name, t, f) :
                                           t \in {1, 2},
                                           f \in {Utf8File(name), Utf8File(ArrayDoc),
                                                  Latin1File(name), MissingFile}}
                                         : name \in {"a.json", "b.json", "c.json",
                                                     "notes.txt"}}] :
                                  \A j, k \in 1..n : j # k => l[j].name # l[k].name}
                               : n \in 0..MaxReportFiles}}
    /\ cache = <<>>
    /\ heap = <<>>
    /\ call = [op |-> "reports"]

ListCombatReports(i) ==
    /\ call.op = "reports"
    /\ cache' = GetCombatReportsIn(cache, disk, i).cache
    /\ call' = [op |-> "get_combat_reports", out |-> GetCombatReportsIn(cache, disk, i).out,
                order |-> IF disk.isdir THEN Names(ReportFilesSorted(disk)) ELSE <<>>]
    /\ UNCHANGED <<disk, heap>>

SpecReports == ReportsInit /\ [][ListCombatReports("sync")]_vars

\* The listed report files that hold a JSON object
ObjectReports == {k \in 1..Len(disk.entries) :
                     /\ EndsWith(disk.entries[k].name, ".json")
                     /\ HoldsObject(disk.entries[k])}

\* The listed report files whose stat() fails
StatFailures == {k \in 1..Len(disk.entries) :
                    /\ EndsWith(disk.entries[k].name, ".json")
                    /\ ~disk.entries[k].file.exists}

\* C22: get_combat_reports returns the JSON-object reports of the
\* directory, one per file holding an object, the more recently modified
\* first; a file whose stat fails does not abort the listing and is placed
\* after every file whose stat succeeds, and a file that holds no object
\* is left out.
C22_ReportsByMtimeDescending ==
    call.op = "get_combat_reports"
    => /\ call.out.kind = "return"
       /\ Len(call.out.val) = Cardinality(ObjectReports)
       /\ \E f \in [1..Len(call.out.val) -> ObjectReports] :
              /\ \A j, k \in 1..Len(call.out.val) :
                     j < k => /\ f[j] # f[k]
                              /\ disk.entries[f[j]].mtime >= disk.entries[f[k]].mtime
              /\ \A k \in 1..Len(call.out.val) :
                     call.out.val[k] = JsonValue(disk.entries[f[k]].file.doc, "exact")
       /\ \A j, k \in 1..Len(call.order) :
              (\E m \in StatFailures : disk.entries[m].name = call.order[j])
              /\ j < k
              => \E m \in StatFailures : disk.entries[m].name = call.order[k]

(***************************************************************************)
(* SpecContainer: AppContainer (container.py).  heap holds the fields of   *)
(* the container; an instance the container creates is a record with the  *)
(* number of its creation as identity.                                     *)
(***************************************************************************)
\* self._parser after get_parser()
WithParser(h) ==
    IF h.parser # None THEN h
    ELSE [h EXCEPT !.parser = [id |-> h.next, path |-> h.pwcgfc_path],
                   !.next = h.next + 1]

\* self._campaign_repo after get_campaign_repository()
WithRepository(h) ==
    IF h.campaign_repo # None THEN h
    ELSE [WithParser(h) EXCEPT
              !.campaign_repo = [id |-> WithParser(h).next,
                                 parser |-> WithParser(h).parser],
              !.next = WithParser(h).next + 1]

\* self._campaign_query after get_campaign_query_service()
WithQueryService(h) ==
    IF h.campaign_query # None THEN h
    ELSE [WithRepository(h) EXCEPT
              !.campaign_query = [id |-> WithRepository(h).next,
                                  repository |-> WithRepository(h).campaign_repo],
              !.next = WithRepository(h).next + 1]

\* AppContainer(pwcgfc_path)
ContainerInit ==
    /\ disk = Utf8File("d1")
    /\ cache = <<>>
    /\ heap \in [pwcgfc_path : {"", "/a", "/b"}, parser : {None},
                 campaign_repo : {None}, campaign_query : {None}, next : {1}]
    /\ call = [op |-> "AppContainer"]

\* set_pwcgfc_path(path): nothing for the current path; otherwise
\* self._parser.clear_cache() when a parser exists, then the new path and
\* the fields reset.  IL2DataParser has no attribute clear_cache.
SetPwcgfcPath(path) ==
    /\ call' = [op |-> "set_pwcgfc_path", path |-> path,
                out |-> IF path # heap.pwcgfc_path /\ heap.parser # None
                               /\ GetAttr("clear_cache").kind = "raise"
                        THEN GetAttr("clear_cache") ELSE Ret(None)]
    /\ heap' = IF path = heap.pwcgfc_path THEN heap
               ELSE IF heap.parser # None /\ GetAttr("clear_cache").kind = "raise"
               THEN heap
               ELSE [heap EXCEPT !.pwcgfc_path = path, !.parser = None,
                                 !.campaign_repo = None, !.campaign_query = None]
    /\ cache' = IF path = heap.pwcgfc_path \/ heap.parser = None
                   \/ GetAttr("clear_cache").kind = "raise"
                THEN cache
                ELSE SelectSeq(cache, LAMBDA e : e.self # heap.parser.id)
    /\ UNCHANGED disk

GetParser ==
    /\ heap' = WithParser(heap)
    /\ call' = [op |-> "get_parser", out |-> Ret(WithParser(heap).parser)]
    /\ UNCHANGED <<disk, cache>>

GetCampaignRepository ==
    /\ heap' = WithRepository(heap)
    /\ call' = [op |-> "get_campaign_repository",
                out |-> Ret(WithRepository(heap).campaign_repo)]
    /\ UNCHANGED <<disk, cache>>

GetCampaignQueryService ==
    /\ heap' = WithQueryService(heap)
    /\ call' = [op |-> "get_campaign_query_service",
                out |-> Ret(WithQueryService(heap).campaign_query)]
    /\ UNCHANGED <<disk, cache>>

\* get_parser().get_json_data(Path(p)): a load through the container's
\* parser, which fills that parser's entries of the cache.
LoadThroughContainer(p) ==
    /\ heap' = WithParser(heap)
    /\ cache' = GetJsonDataResult(cache, FileAt(disk, p), WithParser(heap).parser.id, p).cache
    /\ call' = [op |-> "get_json_data", path |-> p,
                out |-> GetJsonDataResult(cache, FileAt(disk, p),
                                          WithParser(heap).parser.id, p).out]
    /\ UNCHANGED disk

ContainerNext ==
    \/ \E path \in {"", "/a", "/b"} : SetPwcgfcPath(path)
    \/ GetParser
    \/ GetCampaignRepository
    \/ GetCampaignQueryService
    \/ \E p \in {"a.json", "b.json"} : LoadThroughContainer(p)

SpecContainer == ContainerInit /\ [][ContainerNext]_vars

\* C23: get_parser returns the instance the container holds while the path
\* is unchanged, and set_pwcgfc_path with the current path changes
\* nothing; set_pwcgfc_path with a different path returns without error,
\* leaves no entry of the container's parser in the cache, and resets the
\* container to the new path, so that the next get_parser,
\* get_campaign_repository and get_campaign_query_service create
\* instances bound to it.
C23_PathChangeResetsContainer ==
    [][/\ (call'.op = "get_parser" /\ heap.parser # None)
          => call'.out = Ret(heap.parser)
       /\ (call'.op = "get_parser" /\ heap.parser = None)
          => (call'.out.val.id = heap.next /\ call'.out.val.path = heap.pwcgfc_path)
       /\ (call'.op = "get_campaign_repository" /\ heap.campaign_repo = None)
          => (/\ call'.out.val.id >= heap.next
              /\ call'.out.val.parser.path = heap.pwcgfc_path)
       /\ (call'.op = "get_campaign_query_service" /\ heap.campaign_query = None)
          => (/\ call'.out.val.id >= heap.next
              /\ call'.out.val.repository.parser.path = heap.pwcgfc_path)
       /\ (call'.op = "set_pwcgfc_path" /\ call'.path = heap.pwcgfc_path)
          => (heap' = heap /\ cache' = cache)
       /\ (call'.op = "set_pwcgfc_path" /\ call'.path # heap.pwcgfc_path)
          => (/\ call'.out.kind = "return"
              /\ heap.parser # None
                 => \A k \in 1..Len(cache') : cache'[k].self # heap.parser.id
              /\ heap'.pwcgfc_path = call'.path
              /\ heap'.parser = None
              /\ heap'.campaign_repo = None
              /\ heap'.campaign_query = None)
      ]_vars

(***************************************************************************)
(* Claims about the ownership and the lifetime of cache entries            *)
(* (SpecLoader)                                                            *)
(***************************************************************************)
\* The entries of the cache that serve instance i, least recently used
\* first
EntriesOf(c, i) == SelectSeq(c, LAMBDA e : e.self = i)

\* C24: the cache is owned by one parser instance: a load made through
\* one instance leaves the entries that serve every other instance as
\* they were (none inserted, none evicted, none reordered), so that each
\* instance has the whole capacity for itself.
C24_CacheOwnedByInstance ==
    [][\A i, j \in Parsers :
           (/\ call'.op \in {"get_json_data", "get_combat_reports", "load_many"}
            /\ call'.self = i
            /\ j # i)
           => EntriesOf(cache', j) = EntriesOf(cache, j)
      ]_vars

\* C29: a get_json_data for a canonical path that has an entry on the
\* same instance returns the stored first result, null included, without
\* reading the file, whatever the file has become; an entry leaves the
\* cache only when as many newer distinct paths as the capacity have been
\* loaded after its last use; and a path whose canonicalization fails is
\* never stored and is read again on every call.
C29_FirstResultUntilEvicted ==
    [][/\ \A i \in Parsers, p \in InputPaths :
            (/\ call'.op = "get_json_data"
             /\ call'.self = i
             /\ call'.path = p
             /\ Resolve(p).kind = "return"
             /\ KeyIndex(cache, i, Resolve(p).val) # 0)
            => (/\ call'.reads = 0
                /\ call'.out = Ret(cache[KeyIndex(cache, i, Resolve(p).val)].val))
       /\ \A k \in 1..Len(cache) :
            KeyIndex(cache', cache[k].self, cache[k].path) = 0
            => Cardinality({cache'[m].path : m \in 1..Len(cache')} \ {cache[k].path})
                   >= maxsize
       /\ (call'.op = "get_json_data" /\ Resolve(call'.path).kind = "raise")
            => (/\ cache' = cache
                /\ call'.out = LoadJsonFile(FileAt(disk, call'.path)).out
                /\ call'.reads = LoadJsonFile(FileAt(disk, call'.path)).reads)
      ]_vars

(***************************************************************************)
(* Claims about the player's squadron id (SpecMissions)                    *)
(***************************************************************************)
\* The squadronId that the mission of a report's date has under the
\* player's serial in MissionsDirectory, None when no mission file is
\* found for the report or the file cannot be decoded as UTF-8.
SquadronOfMission(report) ==
    IF report.t # "dict" THEN None
    ELSE IF DictGet(report, "date", None) = JStr("19180101") THEN JInt(PlayerSquadron)
    ELSE IF DictGet(report, "date", None) = JStr("19171230") THEN JInt(102)
    ELSE None

\* The positions of the reports that are processed (the JSON objects)
Processed(combat_reports) ==
    {k \in 1..Len(combat_reports) : combat_reports[k].t = "dict"}

Earliest(S) == CHOOSE k \in S : \A j \in S : k <= j

ValidReports == {k \in 1..Len(disk.reports.entries) :
                    /\ EndsWith(disk.reports.entries[k].name, ".json")
                    /\ HoldsObject(disk.reports.entries[k])}

\* process_campaign returned the dict of a campaign (not the empty dict)
NonEmptyResult ==
    /\ call.op = "process_campaign"
    /\ call.out.kind = "return"
    /\ "pilot" \in DOMAIN call.out.val

\* C26: in every non-empty result of process_campaign the pilot's
\* total_missions is the number of entries of missions, one for each
\* combat report that holds a JSON object, whether or not a mission-data
\* file was found for the report.
C26_TotalMissionsIsMissionCount ==
    NonEmptyResult
    => /\ call.out.val.pilot.total_missions = Len(call.out.val.missions)
       /\ Len(call.out.val.missions) = Cardinality(ValidReports)

\* A campaign of three reports: mission data is found for one (its
\* description is the mission's) and not for another (its description is
\* the default text).
C26_Witness ==
    /\ NonEmptyResult
    /\ call.out.val.pilot.total_missions = 3
    /\ \E j, k \in 1..Len(call.out.val.missions) :
           /\ call.out.val.missions[j].description = "Patrol. Weather Report: clear"
           /\ call.out.val.missions[k].description # "Patrol. Weather Report: clear"
           /\ call.out.val.missions[k].description # "Escort"

(***************************************************************************)
(* atomic_json_write (src/utils/file_operations.py)                        *)
(*                                                                         *)
(* disk is the directory of the target: the content of the target and of   *)
(* the temporary file, None for a file that does not exist.  A content is  *)
(* the sequence of the chunks written.  heap is the text file object the   *)
(* with-body writes to: what it buffers reaches the temporary file when    *)
(* the object is flushed or closed.  call is the position in the function. *)
(***************************************************************************)
\* The most chunks a with-body writes
MaxChunks == 3

\* The content of a file; the content a body of n chunks writes; the
\* previous content of a target
Text(chunks) == [t |-> "text", chunks |-> chunks]
Payload(n) == Text([k \in 1..n |-> k])
PreviousContent == Text(<<0>>)

\* The exceptions a with-body raises; the last two are not subclasses of
\* Exception
BodyExceptions == {"ValueError", "TypeError", "OSError",
                   "KeyboardInterrupt", "SystemExit"}
IsException(e) == e \notin {"KeyboardInterrupt", "SystemExit", "GeneratorExit"}

\* The step that fails, if one does: mkstemp, the with-body (after raise_at
\* chunks, with the exception exc), os.fsync or os.replace; unlink_fails
\* says whether tmp_file.unlink() raises OSError in the handler.
WriterInit ==
    /\ disk \in [target : {None, PreviousContent}, tmp : {None}]
    /\ cache = <<>>
    /\ heap = <<>>
    /\ call \in
         {c \in [op : {"atomic_json_write"}, pc : {"mkstemp"},
                 previous : {None, PreviousContent},
                 chunks : 0..MaxChunks, written : {0},
                 fault : {"none", "mkstemp", "body", "fsync", "replace"},
                 raise_at : 0..MaxChunks, exc : BodyExceptions,
                 unlink_fails : BOOLEAN, pending : {None}, out : {None}] :
            /\ c.previous = disk.target
            /\ c.raise_at <= c.chunks
            /\ c.fault # "body" => c.raise_at = 0 /\ c.exc = "OSError"
            /\ c.fault = "mkstemp" => ~c.unlink_fails}

\* tempfile.mkstemp(dir=filepath.parent, prefix='.tmp_', suffix='.json'),
\* before the try: a failure propagates and no file was created.  Then
\* os.fdopen(tmp_fd, 'w') and the yield of the file object.
Mkstemp ==
    /\ call.pc = "mkstemp"
    /\ IF call.fault = "mkstemp"
       THEN /\ call' = [call EXCEPT !.pc = "done", !.out = Raise("OSError")]
            /\ UNCHANGED <<disk, heap>>
       ELSE /\ disk' = [disk EXCEPT !.tmp = Text(<<>>)]
            /\ heap' = <<>>
            /\ call' = [call EXCEPT !.pc = "body"]
    /\ UNCHANGED cache

\* The with-body writes one chunk to the file object (json.dump writes the
\* document chunk by chunk).
BodyWrite ==
    /\ call.pc = "body"
    /\ call.written < call.chunks
    /\ ~(call.fault = "body" /\ call.written = call.raise_at)
    /\ heap' = Append(heap, call.written + 1)
    /\ call' = [call EXCEPT !.written = @ + 1]
    /\ UNCHANGED <<disk, cache>>

\* The with-body raises: the exception is thrown into the generator at the
\* yield, the os.fdopen block closes the file (the buffer reaches the
\* temporary file), and "except Exception" takes an Exception only: any
\* other exception leaves the function as it is.
BodyRaise ==
    /\ call.pc = "body"
    /\ call.fault = "body"
    /\ call.written = call.raise_at
    /\ disk' = [disk EXCEPT !.tmp = Text(@.chunks \o heap)]
    /\ heap' = <<>>
    /\ call' = IF IsException(call.exc)
               THEN [call EXCEPT !.pc = "except", !.pending = call.exc]
               ELSE [call EXCEPT !.pc = "done", !.out = Raise(call.exc)]
    /\ UNCHANGED cache

\* The with-body completed: f.flush() and os.fsync(f.fileno()), then the
\* os.fdopen block closes the file.  A failure of fsync is an OSError.
FlushFsync ==
    /\ call.pc = "body"
    /\ call.written = call.chunks
    /\ call.fault # "body"
    /\ disk' = [disk EXCEPT !.tmp = Text(@.chunks \o heap)]
    /\ heap' = <<>>
    /\ call' = IF call.fault = "fsync"
               THEN [call EXCEPT !.pc = "except", !.pending = "OSError"]
               ELSE [call EXCEPT !.pc = "replace"]
    /\ UNCHANGED cache

\* os.replace(tmp_file, filepath): the temporary file takes the place of
\* the target in one step, or OSError and nothing changed.
Replace ==
    /\ call.pc = "replace"
    /\ IF call.fault = "replace"
       THEN /\ call' = [call EXCEPT !.pc = "except", !.pending = "OSError"]
            /\ UNCHANGED disk
       ELSE /\ disk' = [target |-> disk.tmp, tmp |-> None]
            /\ call' = [call EXCEPT !.pc = "done", !.out = Ret(None)]
    /\ UNCHANGED <<cache, heap>>

\* except Exception: tmp_file.unlink() if the file exists, an OSError of
\* unlink passed over; then raise.
ExceptUnlink ==
    /\ call.pc = "except"
    /\ disk' = IF disk.tmp # None /\ ~call.unlink_fails
               THEN [disk EXCEPT !.tmp = None] ELSE disk
    /\ call' = [call EXCEPT !.pc = "done", !.out = Raise(call.pending)]
    /\ UNCHANGED <<cache, heap>>

WriterNext ==
    \/ Mkstemp
    \/ BodyWrite
    \/ BodyRaise
    \/ FlushFsync
    \/ Replace
    \/ ExceptUnlink

SpecWriter == WriterInit /\ [][WriterNext]_vars

\* The with-body, the flush or the replace raised, and the function is left
WriteFailed ==
    /\ call.op = "atomic_json_write"
    /\ call.pc = "done"
    /\ call.out.kind = "raise"
    /\ call.fault # "mkstemp"

\* C27: atomic_json_write is all-or-nothing.  When the with-body completes
\* the target holds exactly the content written and no temporary file
\* remains; when the body, the flush or the replace raises, the target has
\* its previous content (or still does not exist), the temporary file is
\* removed and the exception propagates; the target never holds a part of
\* the content.
C27_AtomicWriteAllOrNothing ==
    call.op = "atomic_json_write"
    => /\ disk.target \in {call.previous, Payload(call.chunks)}
       /\ (call.pc = "done" /\ call.out.kind = "return")
          => /\ disk.target = Payload(call.chunks)
             /\ disk.tmp = None
             /\ call.fault = "none"
       /\ WriteFailed
          => /\ disk.target = call.previous
             /\ disk.tmp = None
             /\ call.out.exc = (IF call.fault = "body" THEN call.exc
                                ELSE "OSError")

(***************************************************************************)
(* Claims about the last level of the search (SpecMatcher)                 *)
(***************************************************************************)
\* A search of a list of candidates ran: through get_mission_data, or
\* _find_mission_file_matches on its own
Searched ==
    /\ call.op \in {"match_report", "_find_mission_file_matches"}
    /\ call.out.found = "searched"

\* C28: the date-pattern level (Tier D) never selects a file: a name whose
\* pattern match equals the date looked for contains that date, so when
\* the date-only level (Tier C) is empty Tier D is empty, and a search
\* whose levels A to C are empty returns the empty list.
C28_TierDNeverSelects ==
    Searched
    => LET tiers == Tiers(call.out.candidates, call.out.pilot_name_clean,
                          call.out.date_str_dashed)
       IN  /\ call.out.log # "regex"
           /\ tiers[3] = <<>> => tiers[4] = <<>>
           /\ (tiers[1] = <<>> /\ tiers[2] = <<>> /\ tiers[3] = <<>>)
              => call.out.matches = <<>>

\* Levels A to C are empty for a list in which the date expression finds
\* a match, and the search returns nothing.
C28_Witness ==
    /\ Searched
    /\ \E k \in 1..Len(call.out.candidates) :
           DateRegexSearch(call.out.candidates[k].name) # None
    /\ DateOnly(call.out.candidates, Lower(call.out.date_str_dashed)) = <<>>
    /\ call.out.pilot_name_clean = "Schmidt"
    /\ call.out.matches = <<>>
    /\ call.out.log = ""

(***************************************************************************)
(* DataSyncThread and MainWindow._sync_data (src/app/ui/main_window.py)    *)
(*                                                                         *)
(* heap is the window: the busy flag (action_sync is enabled when it is    *)
(* not set), sync_thread (0 for None, otherwise the number of the thread), *)
(* the threads created, each with its position in run() and the signals    *)
(* it emitted, and the queue of the main thread, to which every signal of  *)
(* a worker is posted (Qt.QueuedConnection) and from which the event loop  *)
(* takes them in order.  disk is the campaign that is synchronised.        *)
(***************************************************************************)
\* The most DataSyncThreads the window starts
MaxSyncs == 2

Signal(name, arg) == [signal |-> name, arg |-> arg]

\* The parser of the processor that create_processor makes for a thread
SyncParser(n) == IF n = 1 THEN "sync" ELSE "sync" \o ToString(n)

\* QThread.isRunning(): start() was called and run() has not finished
IsRunning(thread) == thread.pc # "finished"

\* A signal of thread n is emitted: it is posted to the main thread
Emitted(h, n, signals) ==
    [h EXCEPT !.threads[n].signals = @ \o signals,
              !.queue = @ \o [k \in 1..Len(signals) |->
                                 [thread |-> n, signal |-> signals[k].signal,
                                  arg |-> signals[k].arg]]]

\* run() after progress.emit(40): progress 90 when process_campaign
\* returned; error_occurred and progress 0 for a value that is not a
\* non-empty dict and for an exception (the first handler takes OSError,
\* JSONDecodeError and ValueError, the second every other Exception);
\* data_loaded and progress 100 otherwise.
RunSignals(out) ==
    IF Caught(out, {"OSError", "JSONDecodeError", "ValueError"})
    THEN <<Signal("error_occurred", "Erro ao processar dados"), Signal("progress", 0)>>
    ELSE IF out.kind = "raise"
    THEN <<Signal("error_occurred", "Erro inesperado"), Signal("progress", 0)>>
    ELSE IF out.val.t # "dict" \/ out.val = JDict(<<>>)
    THEN <<Signal("progress", 90),
           Signal("error_occurred", "Nao foi possivel carregar os dados da campanha."),
           Signal("progress", 0)>>
    ELSE <<Signal("progress", 90), Signal("data_loaded", out.val),
           Signal("progress", 100)>>

\* MainWindow.__init__: no thread, _set_ui_busy(False).  The campaign
\* directory is one that process_campaign returns a campaign for, one
\* without Campaign.json, one whose Campaign.json is Latin-1 and one whose
\* Campaign.json holds an array.
SyncInit ==
    /\ disk \in [campaign : {MissingFile, Latin1File("campaign"),
                             Utf8File("campaign"), Utf8File("campaign array")},
                 personnel : {Utf8File("personnel")},
                 aces : {Utf8File("aces array")},
                 reports : {Directory(TRUE, <<Entry("1.json", 1,
                                                    Utf8File("report 19180101"))>>)},
                 missions : {MissionsDirectory}]
    /\ cache = <<>>
    /\ heap = [busy |-> FALSE, sync_thread |-> 0, threads |-> <<>>,
               queue |-> <<>>, progress_bar |-> 0, current_data |-> None]
    /\ call = [op |-> "MainWindow"]

\* action_sync.triggered -> _sync_data, for the campaign shown in the
\* combo box.  _set_ui_busy disables action_sync while the flag is set, so
\* the action is triggered only when it is not.
SyncData(campaign) ==
    /\ ~heap.busy
    /\ Len(heap.threads) < MaxSyncs
    /\ IF campaign = ""
       THEN /\ call' = [op |-> "_sync_data", campaign |-> campaign,
                        out |-> "Selecione a pasta PWCGFC e uma campanha."]
            /\ UNCHANGED heap
       ELSE IF heap.sync_thread # 0 /\ IsRunning(heap.threads[heap.sync_thread])
       THEN /\ call' = [op |-> "_sync_data", campaign |-> campaign,
                        out |-> "Sincronizacao ja em andamento..."]
            /\ UNCHANGED heap
       ELSE /\ call' = [op |-> "_sync_data", campaign |-> campaign,
                        out |-> "start"]
            /\ heap' = [heap EXCEPT
                          !.busy = TRUE,
                          !.progress_bar = 0,
                          !.sync_thread = Len(heap.threads) + 1,
                          !.threads = Append(@, [pc |-> "run", signals |-> <<>>])]
    /\ UNCHANGED <<disk, cache>>

\* run(): progress.emit(10)
RunBegins(n) ==
    /\ n \in 1..Len(heap.threads)
    /\ heap.threads[n].pc = "run"
    /\ heap' = [Emitted(heap, n, <<Signal("progress", 10)>>)
                   EXCEPT !.threads[n].pc = "process"]
    /\ call' = [op |-> "run", thread |-> n]
    /\ UNCHANGED <<disk, cache>>

RunProcessDone(n, r) ==
    /\ cache' = r.cache
    /\ heap' = [Emitted(heap, n, <<Signal("progress", 40)>> \o RunSignals(r.out))
                   EXCEPT !.threads[n].pc = "return"]
    /\ call' = [op |-> "process_campaign", thread |-> n, out |-> r.out]
    /\ UNCHANGED disk

\* run(): the processor of the factory, progress.emit(40),
\* process_campaign and the signals of its outcome
RunProcesses(n) ==
    /\ n \in 1..Len(heap.threads)
    /\ heap.threads[n].pc = "process"
    /\ RunProcessDone(n, ProcessCampaignResult(cache, disk, SyncParser(n)))

\* run() returns: the thread is no longer running and finished is emitted
RunReturns(n) ==
    /\ n \in 1..Len(heap.threads)
    /\ heap.threads[n].pc = "return"
    /\ heap' = [Emitted(heap, n, <<Signal("finished", None)>>)
                   EXCEPT !.threads[n].pc = "finished"]
    /\ call' = [op |-> "finished", thread |-> n]
    /\ UNCHANGED <<disk, cache>>

\* The slot of a signal, as _sync_data connected them: data_loaded to
\* _on_data_loaded, progress to progress_bar.setValue, finished to
\* _set_ui_busy(False); _on_sync_error shows the message.
Slot_DataLoadedClearsBusy(h, event) ==
    CASE event.signal = "data_loaded" -> [h EXCEPT !.current_data = event.arg,
                                                   !.busy = FALSE]
      [] event.signal = "progress"    -> [h EXCEPT !.progress_bar = event.arg]
      [] event.signal = "finished"    -> [h EXCEPT !.busy = FALSE]
      [] OTHER                        -> h

Slot(h, event) ==
    CASE event.signal = "data_loaded" -> [h EXCEPT !.current_data = event.arg]
      [] event.signal = "progress"    -> [h EXCEPT !.progress_bar = event.arg]
      [] event.signal = "finished"    -> [h EXCEPT !.busy = FALSE]
      [] OTHER                        -> h

\* The event loop of the main thread delivers the first queued signal
Deliver ==
    /\ heap.queue # <<>>
    /\ heap' = Slot([heap EXCEPT !.queue = Tail(@)], Head(heap.queue))
    /\ call' = [op |-> "slot", signal |-> Head(heap.queue).signal,
                thread |-> Head(heap.queue).thread]
    /\ UNCHANGED <<disk, cache>>

SyncNext ==
    \/ \E campaign \in {"", "Campaign"} : SyncData(campaign)
    \/ \E n \in 1..MaxSyncs : RunBegins(n)
    \/ \E n \in 1..MaxSyncs : RunProcesses(n)
    \/ \E n \in 1..MaxSyncs : RunReturns(n)
    \/ Deliver

SpecSync == SyncInit /\ [][SyncNext]_vars

\* The positions of the terminal signals among the signals of a thread
Terminal(signals) ==
    {k \in 1..Len(signals) : signals[k].signal \in {"data_loaded", "error_occurred"}}

\* One terminal signal: data_loaded with a non-empty dict and then
\* progress 100, or error_occurred and then progress 0
OneTerminalSignal(signals) ==
    /\ Cardinality(Terminal(signals)) = 1
    /\ \A k \in Terminal(signals) :
          /\ k < Len(signals)
          /\ signals[k].signal = "data_loaded"
             => /\ signals[k].arg.t = "dict"
                /\ signals[k].arg # JDict(<<>>)
                /\ signals[k + 1].signal = "progress"
                /\ signals[k + 1].arg = 100
          /\ signals[k].signal = "error_occurred"
             => /\ signals[k + 1].signal = "progress"
                /\ signals[k + 1].arg = 0

Running == {n \in 1..Len(heap.threads) : IsRunning(heap.threads[n])}

\* C30: every run of DataSyncThread emits exactly one terminal signal,
\* data_loaded (with a non-empty dict, followed by progress 100) or
\* error_occurred (followed by progress 0), never both and never neither;
\* _sync_data never starts a second thread while one is running; the busy
\* flag is set before the thread starts and is cleared only after the
\* thread finished.
C30_OneTerminalSignalOneThread ==
    call.op \in {"_sync_data", "run", "process_campaign", "finished", "slot"}
    => /\ \A n \in 1..Len(heap.threads) :
             /\ Cardinality(Terminal(heap.threads[n].signals)) <= 1
             /\ heap.threads[n].pc \in {"return", "finished"}
                => OneTerminalSignal(heap.threads[n].signals)
       /\ Cardinality(Running) <= 1
       /\ Running # {} => heap.busy

\* Two synchronisations, one after the other was finished and its signals
\* delivered: the first loaded the campaign, the second is running.
C30_Witness ==
    /\ call.op = "process_campaign"
    /\ Len(heap.threads) = 2
    /\ heap.threads[1].pc = "finished"
    /\ \E k \in 1..Len(heap.threads[1].signals) :
           heap.threads[1].signals[k].signal = "data_loaded"
    /\ heap.threads[2].pc = "return"
    /\ heap.current_data # None
    /\ heap.busy

=============================================================================
